---- MODULE Spec2Model ----
(***************************************************************************)
(* A model of the caller library: the PDF uploader's response normaliser,  *)
(* the filename normalisation and three-tier document matcher, and the     *)
(* upload / register operations, the status poll, the registration facade *)
(* of the application, and the query client's ask and notebook_ask, with   *)
(* the backend as the environment.                                         *)
(*                                                                         *)
(* Strings whose characters matter (file names, titles, stored paths) are  *)
(* sequences of one-character strings; a field that is absent (None) and a *)
(* field that holds the empty string are both the empty sequence, because  *)
(* every test the code makes on them is a truthiness test.  Paths follow   *)
(* pathlib's POSIX flavour.                                                *)
(***************************************************************************)
EXTENDS Integers, Sequences, FiniteSets, TLC

VARIABLES
    nfPc,       \* normalisation harness: "idle" | "pick" | "variant" | "done"
    nfName,     \* the file name f
    nfOther,    \* a name that differs from f by prefix, case or suffix
    nfHow,      \* how nfOther was derived from nfName
    nfOut,      \* <<normalize_filename(f), normalize_filename(other)>>
    nsPc,       \* normaliser harness: "idle" | "pick" | "done"
    nsItems,    \* a list of JSON values
    nsShape,    \* the shape the payload was given in
    nsPayload,  \* the payload handed to _normalize_sources
    nsOut,      \* what _normalize_sources did with nsPayload
    nsRef,      \* what _normalize_sources did with the bare list nsItems
    fmPc,       \* matcher harness: "idle" | "pick" | "done"
    fmTarget,   \* filename_or_path
    fmListing,  \* the documents the backend holds, in listing order
    fmResp,     \* the response to GET /sources
    fmOut,      \* what find_source_for_file did
    fmExists,   \* what source_exists did on the same response
    fmId,       \* what get_source_id did on the same response
    upName,     \* the file name the upload calls are about
    upDocs,     \* the documents the backend holds, in listing order
    upPc,       \* per caller: "idle" | "post" | "done"
    upReq,      \* per caller: the call in progress
    upFound,    \* per caller: what the call's find_source_for_file did
    upResult,   \* per caller: what the call returned
    upAnswer,   \* per caller: the status the call's POST /sources was answered with, 0 if none
    upCallPosts,\* per caller: POST /sources requests the call has issued
    upCalls,    \* calls begun so far
    upPosts,    \* POST /sources requests issued by upload_file_and_process
    upCreated,  \* of those, the ones the backend answered by creating a document
    upListed,   \* every GET /sources so far succeeded with the full listing
    upOverlap,  \* some call began while another was in progress
    plPc,       \* poll_source_status: "off" | "request" | "check" | "sleep" | "returned" | "timeout" | "raised"
    plTimeout,  \* timeout
    plInterval, \* poll_interval
    plClock,    \* time.time() - start
    plRequests, \* GET /sources/{id}/status requests issued
    plLast,     \* what the last request met: a response or a connection error
    plResult,   \* what the call returned or raised
    plFirstTerminal, \* number of the first 2xx response that carried completed or failed, 0 if none yet
    plExact,    \* no request has taken any time so far
    plAllRunning, \* every request so far was answered 200 "running"
    nbPc,       \* notebook_ask: "off" | "defaults" | "create_notebook" | "link" | "context" | "create_session" | "execute" | "done" | "raised"
    nbArgs,     \* the arguments source_id, notebook_id, session_id, model_override ("" is None)
    nbNotebook, \* the local notebook_id
    nbSession,  \* the local session_id
    nbDefaults, \* the local defaults
    nbContext,  \* the local built_context
    nbLog,      \* the requests issued so far, each with the status it was answered with
    nbResult,   \* what the call returned or raised
    rgPc,       \* register_and_process_file: "off" | "call" | "running" | "returned" | "raised"
    rgArgs,     \* the arguments local_path and server_path (<<>> is None)
    rgRoute,    \* the uploader operation the call runs
    rgResult,   \* what the call returned or raised
    akPc,       \* per invocation of ask: "off" | "defaults" | "session" | "post" | "lines" | "simple" | "done" | "raised"
    akArgs,     \* per invocation: the arguments source_ids and model_override
    akDefaults, \* per invocation: the local defaults
    akSession,  \* per invocation: the local session_id
    akLog,      \* per invocation: the requests issued so far
    akLines,    \* per invocation: the lines its response stream has delivered
    akEvents,   \* per list: the events list
    akChunks,   \* per list: the ai_chunks list
    akResult    \* per invocation: what the call returned or raised

nfVars == <<nfPc, nfName, nfOther, nfHow, nfOut>>

nsVars == <<nsPc, nsItems, nsShape, nsPayload, nsOut, nsRef>>

fmVars == <<fmPc, fmTarget, fmListing, fmResp, fmOut, fmExists, fmId>>

upVars == <<upName, upDocs, upPc, upReq, upFound, upResult, upAnswer, upCallPosts, upCalls,
            upPosts, upCreated, upListed, upOverlap>>

plVars == <<plPc, plTimeout, plInterval, plClock, plRequests, plLast, plResult,
            plFirstTerminal, plExact, plAllRunning>>

nbVars == <<nbPc, nbArgs, nbNotebook, nbSession, nbDefaults, nbContext, nbLog, nbResult>>

rgVars == <<rgPc, rgArgs, rgRoute, rgResult>>

akVars == <<akPc, akArgs, akDefaults, akSession, akLog, akLines, akEvents, akChunks, akResult>>

vars == <<nfVars, nsVars, fmVars, upVars, plVars, nbVars, rgVars, akVars>>

(***************************************************************************)
(* Bounds                                                                  *)
(***************************************************************************)
MaxNameLen == 5

MaxItems == 2

MaxCands == 2

MaxStamp == 1

MaxCalls == 3

\* the longest timeout, the longest poll_interval and the longest a status
\* request may take, in clock ticks
MaxTimeout == 3

MaxInterval == 2

MaxLatency == 1

\* the longest message list a chat execution answers with
MaxMsgs == 2

(***************************************************************************)
(* Characters and strings                                                  *)
(***************************************************************************)
\* the characters file names are built from
NameChars == {"a", "A", "1", " ", "(", ")", "."}

\* what \s matches and str.strip() removes
IsSpace(c) == c = " "

\* what \d matches
IsDigit(c) == c = "1" \/ c = "2"

\* str.lower() on one character
LowerChar(c) == IF c = "A" THEN "a" ELSE IF c = "P" THEN "p" ELSE c

\* str.lower()
Lower(s) == [i \in 1..Len(s) |-> LowerChar(s[i])]

RECURSIVE RStrip(_)
RStrip(s) ==
    IF s # <<>> /\ IsSpace(s[Len(s)]) THEN RStrip(SubSeq(s, 1, Len(s) - 1)) ELSE s

RECURSIVE LStrip(_)
LStrip(s) ==
    IF s # <<>> /\ IsSpace(s[1]) THEN LStrip(Tail(s)) ELSE s

\* str.strip()
Strip(s) == LStrip(RStrip(s))

Contains(s, c) == \E i \in 1..Len(s) : s[i] = c

\* index of the last occurrence of c in s, 0 when there is none
LastIndexOf(s, c) ==
    IF Contains(s, c) THEN CHOOSE i \in 1..Len(s) : s[i] = c /\ \A j \in (i+1)..Len(s) : s[j] # c
    ELSE 0

\* length of the run of digits that ends s
RECURSIVE TrailingDigits(_)
TrailingDigits(s) ==
    IF s # <<>> /\ IsDigit(s[Len(s)]) THEN 1 + TrailingDigits(SubSeq(s, 1, Len(s) - 1)) ELSE 0

\* re.sub(r'\s*\(\d+\)\s*$', '', s): the only possible match ends at the end
\* of s and is leading blanks, "(", one or more digits, ")", trailing blanks
ReSubSuffix(s) ==
    LET t == RStrip(s)
        n == Len(t)
    IN  IF n >= 3 /\ t[n] = ")"
        THEN LET body == SubSeq(t, 1, n - 1)
                 d == TrailingDigits(body)
                 open == n - 1 - d
             IN  IF d >= 1 /\ open >= 1 /\ t[open] = "("
                 THEN RStrip(SubSeq(t, 1, open - 1))
                 ELSE s
        ELSE s

\* the components of a POSIX path: split on "/", empty and "." parts dropped
RECURSIVE PathParts(_, _, _)
PathParts(s, cur, acc) ==
    LET flush == IF cur = <<>> \/ cur = <<".">> THEN acc ELSE Append(acc, cur)
    IN  IF s = <<>> THEN flush
        ELSE IF s[1] = "/" THEN PathParts(Tail(s), <<>>, flush)
        ELSE PathParts(Tail(s), Append(cur, s[1]), acc)

\* Path(p).name
PathName(p) ==
    LET parts == PathParts(p, <<>>, <<>>)
    IN  IF parts = <<>> THEN <<>> ELSE parts[Len(parts)]

\* normalize_filename
normalize_filename(fname) ==
    LET base == PathName(fname)
        dot == LastIndexOf(base, ".")
    IN  IF dot > 0
        THEN Lower(Strip(ReSubSuffix(SubSeq(base, 1, dot - 1)))
                   \o <<".">> \o SubSeq(base, dot + 1, Len(base)))
        ELSE Lower(base)

(***************************************************************************)
(* JSON values as the backend sends them.  A keyed structure carries the   *)
(* record fields the code reads, an optional "results" entry and further   *)
(* entries in insertion order.  The id is "NoKey" when the key is missing  *)
(* and "" when it is null or empty; a timestamp is 0 when absent and       *)
(* otherwise an ISO-8601 string, numbered in lexicographic order.          *)
(***************************************************************************)
JAbsent == [kind |-> "absent"]

JNull == [kind |-> "null"]

JScalar == [kind |-> "scalar"]

JText == [kind |-> "text"]

JEmptyBody == [kind |-> "empty"]

JList(items) == [kind |-> "list", items |-> items]

JDict(id, title, asset, updated, created, results, extras) ==
    [kind |-> "dict", id |-> id, title |-> title, asset |-> asset, updated |-> updated,
     created |-> created, results |-> results, extras |-> extras]

\* a record object: a keyed structure with the record fields only
JRecord(id, title, asset, updated, created) ==
    JDict(id, title, asset, updated, created, JAbsent, <<>>)

AssetNone == [kind |-> "absent"]

AssetOther == [kind |-> "scalar"]

AssetDict(path) == [kind |-> "dict", file_path |-> path]

IsDict(v) == v.kind = "dict"

IsList(v) == v.kind = "list"

\* item.get("id"): None for a missing key, and None and "" are both falsy
GetId(item) == IF item.id = "NoKey" THEN "" ELSE item.id

\* the result of a call: a value, or an exception
Returned(v) == [raised |-> FALSE, value |-> v]

Raised == [raised |-> TRUE]

\* _normalize_source_item; item.get raises AttributeError on a non-dict
_normalize_source_item(item) ==
    IF ~IsDict(item) THEN Raised
    ELSE Returned([id |-> GetId(item),
                   title |-> item.title,
                   asset_file_path |-> IF item.asset.kind = "dict" THEN item.asset.file_path ELSE <<>>,
                   updated |-> item.updated,
                   created |-> item.created,
                   raw |-> item])

\* [self._normalize_source_item(i) for i in items]
NormalizeEach(items) ==
    IF \E i \in 1..Len(items) : _normalize_source_item(items[i]).raised THEN Raised
    ELSE Returned([i \in 1..Len(items) |-> _normalize_source_item(items[i]).value])

\* isinstance(v, list) and v and isinstance(v[0], dict) and "id" in v[0]
LooksLikeRecordList(v) ==
    IsList(v) /\ v.items # <<>> /\ IsDict(v.items[1]) /\ v.items[1].id # "NoKey"

\* for v in data.values(): the first entry that looks like a list of records
NestedList(extras) ==
    IF \E i \in 1..Len(extras) : LooksLikeRecordList(extras[i])
    THEN LET first == CHOOSE i \in 1..Len(extras) :
                          /\ LooksLikeRecordList(extras[i])
                          /\ \A j \in 1..(i - 1) : ~LooksLikeRecordList(extras[j])
         IN  NormalizeEach(extras[first].items)
    ELSE Returned(<<>>)

NormalizeSkipsResults(data) ==
    IF data.kind = "null" THEN Returned(<<>>)
    ELSE IF IsList(data) THEN NormalizeEach(data.items)
    ELSE IF IsDict(data) THEN
        IF GetId(data) # "" \/ data.title # <<>>
        THEN NormalizeEach(<<data>>)
        ELSE NestedList(data.extras)
    ELSE Returned(<<>>)

_normalize_sources(data) ==
    IF data.kind = "null" THEN Returned(<<>>)
    ELSE IF IsList(data) THEN NormalizeEach(data.items)
    ELSE IF IsDict(data) THEN
        IF IsList(data.results) THEN NormalizeEach(data.results.items)
        ELSE IF GetId(data) # "" \/ data.title # <<>>
        THEN NormalizeEach(<<data>>)
        ELSE NestedList(data.extras)
    ELSE Returned(<<>>)

(***************************************************************************)
(* HTTP responses: a status code and a body.  requests' Response.ok is     *)
(* "the status is below 400".  The body is kept as the parsed value; an    *)
(* empty body has no text and no data, a body that is not JSON is its own  *)
(* text.                                                                   *)
(***************************************************************************)
Response(status, body) == [status_code |-> status, body |-> body]

RespOk(resp) == resp.status_code < 400

HasText(body) == body.kind # "empty"

\* _wrap_response
_wrap_response(resp) ==
    [ok |-> RespOk(resp),
     status_code |-> resp.status_code,
     data |-> IF HasText(resp.body) THEN resp.body ELSE JNull,
     text |-> resp.body,
     error |-> "None"]

(***************************************************************************)
(* The document matcher                                                    *)
(***************************************************************************)
NoMatch == [kind |-> "none"]

Matched(rec) == [kind |-> "rec", rec |-> rec]

Raises == [kind |-> "raise"]

\* the tier the loop body puts candidate s in: 1 exact stored path,
\* 2 basename of the stored path or title, 3 normalised title, 0 none
TierWithoutNormalized(s, target, target_normalized, target_basename) ==
    LET file_path == s.asset_file_path
        title == s.title
    IN  IF file_path # <<>> /\ file_path = target THEN 1
        ELSE IF file_path # <<>> /\ Lower(PathName(file_path)) = target_basename THEN 2
        ELSE IF title # <<>> /\ Lower(title) = target_basename THEN 2
        ELSE 0

Tier(s, target, target_normalized, target_basename) ==
    LET file_path == s.asset_file_path
        title == s.title
    IN  IF file_path # <<>> /\ file_path = target THEN 1
        ELSE IF file_path # <<>> /\ Lower(PathName(file_path)) = target_basename THEN 2
        ELSE IF title # <<>> /\ Lower(title) = target_basename THEN 2
        ELSE IF title # <<>> /\ normalize_filename(title) = target_normalized THEN 3
        ELSE 0

\* the candidates with the tier the loop gave each of them
Tiered(candidates, target) ==
    LET target_normalized == normalize_filename(target)
        target_basename == Lower(PathName(target))
    IN  [i \in 1..Len(candidates) |->
            [s |-> candidates[i],
             tier |-> Tier(candidates[i], target, target_normalized, target_basename)]]

\* one of the three match lists, in listing order
InTier(tiered, t) ==
    LET Test(e) == e.tier = t
        kept == SelectSeq(tiered, Test)
    IN  [i \in 1..Len(kept) |-> kept[i].s]

\* it.get("updated") or it.get("created") or ""
KeyUpdatedOnly(it) == it.updated

SortKey(it) == IF it.updated # 0 THEN it.updated ELSE it.created

\* x placed ahead of the elements whose key equals its own
RECURSIVE InsertAheadOfEquals(_, _)
InsertAheadOfEquals(sorted, x) ==
    IF sorted = <<>> THEN <<x>>
    ELSE IF SortKey(Head(sorted)) > SortKey(x)
         THEN <<Head(sorted)>> \o InsertAheadOfEquals(Tail(sorted), x)
         ELSE <<x>> \o sorted

\* x placed behind every element whose key is at least its own
RECURSIVE InsertDesc(_, _)
InsertDesc(sorted, x) ==
    IF sorted = <<>> THEN <<x>>
    ELSE IF SortKey(Head(sorted)) >= SortKey(x)
         THEN <<Head(sorted)>> \o InsertDesc(Tail(sorted), x)
         ELSE <<x>> \o sorted

\* results.sort(key=..., reverse=True): stable, greatest key first
RECURSIVE SortNewestFirst(_)
SortNewestFirst(results) ==
    IF results = <<>> THEN <<>>
    ELSE InsertDesc(SortNewestFirst(SubSeq(results, 1, Len(results) - 1)),
                    results[Len(results)])

\* exact_matches or basename_matches or normalized_matches or []
PickFirstMatch(tiered) ==
    LET Test(e) == e.tier # 0
        all == SelectSeq(tiered, Test)
    IN  IF all = <<>> THEN <<>> ELSE InTier(tiered, all[1].tier)

WinningTier(tiered) ==
    LET exact_matches == InTier(tiered, 1)
        basename_matches == InTier(tiered, 2)
        normalized_matches == InTier(tiered, 3)
    IN  IF exact_matches # <<>> THEN exact_matches
        ELSE IF basename_matches # <<>> THEN basename_matches
        ELSE normalized_matches

\* a listing that was refused is raised to the caller
FindRaisesOnRefusal(resp, target) ==
    LET wrapped == _wrap_response(resp)
        candidates == _normalize_sources(wrapped.data)
    IN  IF ~wrapped.ok THEN Raises
        ELSE IF candidates.raised THEN Raises
        ELSE LET results == WinningTier(Tiered(candidates.value, target))
             IN  IF results = <<>> THEN NoMatch
                 ELSE Matched(SortNewestFirst(results)[1])

\* find_source_for_file, given the response to its GET /sources
find_source_for_file(resp, target) ==
    LET wrapped == _wrap_response(resp)
        candidates == _normalize_sources(wrapped.data)
    IN  IF ~wrapped.ok THEN NoMatch
        ELSE IF candidates.raised THEN Raises
        ELSE LET results == WinningTier(Tiered(candidates.value, target))
             IN  IF results = <<>> THEN NoMatch
                 ELSE Matched(SortNewestFirst(results)[1])

\* source_exists, given what its find_source_for_file call produced
source_exists(found) ==
    IF found.kind = "raise" THEN Raised ELSE Returned(found.kind = "rec")

\* get_source_id, given what its find_source_for_file call produced
get_source_id(src) ==
    IF src.kind = "raise" THEN Raised
    ELSE Returned(IF src.kind = "rec" THEN src.rec.id ELSE "")

(***************************************************************************)
(* Harness for normalize_filename: a file name and a second name that      *)
(* differs from it only by a path prefix, by letter case, or by a          *)
(* server-added " (n)" suffix before the extension.                        *)
(***************************************************************************)
RECURSIVE StringsUpTo(_)
StringsUpTo(n) ==
    IF n = 0 THEN {<<>>}
    ELSE LET shorter == StringsUpTo(n - 1)
         IN  shorter \cup {Append(s, c) : s \in {t \in shorter : Len(t) = n - 1}, c \in NameChars}

\* a file name: not empty, not the directory entry "."
FileNames == {s \in StringsUpTo(MaxNameLen) : s # <<>> /\ s # <<".">>}

HasExtension(name) == Contains(name, ".")

\* the backend's disambiguation: " (n)" inserted before the extension
AddSuffix(name, digit) ==
    LET dot == LastIndexOf(name, ".")
    IN  SubSeq(name, 1, dot - 1) \o <<" ", "(", digit, ")">> \o SubSeq(name, dot, Len(name))

SwapCase(c) ==
    IF c = "a" THEN "A" ELSE IF c = "A" THEN "a"
    ELSE IF c = "p" THEN "P" ELSE IF c = "P" THEN "p" ELSE c

NfIdle ==
    /\ nfPc = "idle"
    /\ nfName = <<>>
    /\ nfOther = <<>>
    /\ nfHow = "none"
    /\ nfOut = <<>>

NfInit ==
    /\ nfPc = "pick"
    /\ nfName \in FileNames
    /\ nfOther = <<>>
    /\ nfHow = "none"
    /\ nfOut = <<>>

NfPrefix ==
    /\ nfPc = "pick"
    /\ \E dir \in {<<"a", "/">>, <<"/">>, <<"A", ".", "/">>} : nfOther' = dir \o nfName
    /\ nfHow' = "prefix"
    /\ nfPc' = "variant"
    /\ UNCHANGED <<nfName, nfOut, nsVars, fmVars, upVars, plVars, nbVars, rgVars, akVars>>

NfCase ==
    /\ nfPc = "pick"
    /\ \E flip \in SUBSET (1..Len(nfName)) :
          nfOther' = [i \in 1..Len(nfName) |->
                         IF i \in flip THEN SwapCase(nfName[i]) ELSE nfName[i]]
    /\ nfHow' = "case"
    /\ nfPc' = "variant"
    /\ UNCHANGED <<nfName, nfOut, nsVars, fmVars, upVars, plVars, nbVars, rgVars, akVars>>

NfSuffix ==
    /\ nfPc = "pick"
    /\ HasExtension(nfName)
    /\ \E digit \in {"1", "2"} : nfOther' = AddSuffix(nfName, digit)
    /\ nfHow' = "suffix"
    /\ nfPc' = "variant"
    /\ UNCHANGED <<nfName, nfOut, nsVars, fmVars, upVars, plVars, nbVars, rgVars, akVars>>

NfNormalize ==
    /\ nfPc = "variant"
    /\ nfOut' = <<normalize_filename(nfName), normalize_filename(nfOther)>>
    /\ nfPc' = "done"
    /\ UNCHANGED <<nfName, nfOther, nfHow, nsVars, fmVars, upVars, plVars, nbVars, rgVars, akVars>>

NfNext == NfPrefix \/ NfCase \/ NfSuffix \/ NfNormalize

(***************************************************************************)
(* Harness for _normalize_sources: a list of JSON values, handed over bare,*)
(* inside a {results: [...]} envelope, as a single object, nested under    *)
(* another key, or replaced by a payload that is no list at all.           *)
(***************************************************************************)
RECURSIVE SeqsUpTo(_, _)
SeqsUpTo(set, n) ==
    IF n = 0 THEN {<<>>}
    ELSE LET shorter == SeqsUpTo(set, n - 1)
         IN  shorter \cup {Append(s, x) : s \in {t \in shorter : Len(t) = n - 1}, x \in set}

ShapeRecords ==
    {JRecord(id, title, asset, updated, 0) :
        id \in {"NoKey", "", "7"},
        title \in {<<>>, <<"a", ".", "p">>},
        asset \in {AssetNone, AssetOther, AssetDict(<<"d", "/", "a", ".", "p">>)},
        updated \in {0, 1}}

ShapeItems == ShapeRecords \cup {JScalar}

Envelope(items) == JDict("NoKey", <<>>, AssetNone, 0, 0, JList(items), <<>>)

NsIdle ==
    /\ nsPc = "idle"
    /\ nsItems = <<>>
    /\ nsShape = "none"
    /\ nsPayload = JNull
    /\ nsOut = Returned(<<>>)
    /\ nsRef = Returned(<<>>)

NsInit ==
    /\ nsPc = "pick"
    /\ nsItems \in SeqsUpTo(ShapeItems, MaxItems)
    /\ nsShape = "none"
    /\ nsPayload = JNull
    /\ nsOut = Returned(<<>>)
    /\ nsRef = Returned(<<>>)

NsNormalize(shape, payload) ==
    /\ nsPc = "pick"
    /\ nsShape' = shape
    /\ nsPayload' = payload
    /\ nsOut' = _normalize_sources(payload)
    /\ nsRef' = _normalize_sources(JList(nsItems))
    /\ nsPc' = "done"
    /\ UNCHANGED <<nsItems, nfVars, fmVars, upVars, plVars, nbVars, rgVars, akVars>>

NsBareList == NsNormalize("list", JList(nsItems))

NsResultsEnvelope == NsNormalize("results", Envelope(nsItems))

NsSingleObject ==
    /\ Len(nsItems) = 1
    /\ NsNormalize("single", nsItems[1])

\* a record-shaped object that also carries a "results" list
NsObjectWithResults ==
    /\ nsItems # <<>>
    /\ IsDict(nsItems[1])
    /\ NsNormalize("object+results", [nsItems[1] EXCEPT !.results = JList(Tail(nsItems))])

\* a keyed structure of no recognised shape, the list under some other key
NsNested ==
    \E results \in {JAbsent, JScalar}, before \in {<<>>, <<JScalar>>, <<JList(<<>>)>>},
       after \in {<<>>, <<JList(<<JRecord("9", <<>>, AssetNone, 0, 0)>>)>>} :
        NsNormalize("nested",
                    JDict("NoKey", <<>>, AssetNone, 0, 0, results,
                          before \o <<JList(nsItems)>> \o after))

NsNotAList ==
    /\ nsItems = <<>>
    /\ \E payload \in {JNull, JScalar, JText} : NsNormalize("other", payload)

NsNext ==
    \/ NsBareList
    \/ NsResultsEnvelope
    \/ NsSingleObject
    \/ NsObjectWithResults
    \/ NsNested
    \/ NsNotAList

(***************************************************************************)
(* Harness for find_source_for_file: a backend holding up to MaxCands      *)
(* documents answers one GET /sources.                                     *)
(***************************************************************************)
Stamps == 0..MaxStamp

MatchTargets == {<<"d", "/", "a", ".", "p">>, <<"A", " ", "(", "2", ")", ".", "p">>}

\* <<stored path, title>> of a document
MatchIdents ==
    { <<<<>>, <<>>>>,
      <<<<"d", "/", "a", ".", "p">>, <<>>>>,
      <<<<"e", "/", "A", ".", "p">>, <<"a">>>>,
      <<<<>>, <<"A", ".", "p">>>>,
      <<<<>>, <<"a", " ", "(", "1", ")", ".", "p">>>> }

MatchDocs ==
    {[path |-> ident[1], title |-> ident[2], updated |-> u, created |-> c] :
        ident \in MatchIdents, u \in Stamps, c \in {0, MaxStamp}}

\* the backend's record of document number i
DocRecord(doc, i) ==
    JRecord(ToString(i), doc.title,
            IF doc.path = <<>> THEN AssetNone ELSE AssetDict(doc.path),
            doc.updated, doc.created)

Listing(docs) == [i \in 1..Len(docs) |-> DocRecord(docs[i], i)]

StatusCodes == {200, 201, 304, 404, 500}

\* the answers a GET /sources can give for a backend holding `listing`
ListingResponses(listing) ==
    {Response(200, JList(listing)), Response(200, Envelope(listing)),
     Response(404, JList(listing)), Response(200, JList(Append(listing, JScalar)))}
    \cup (IF listing = <<>>
          THEN {Response(st, body) : st \in StatusCodes,
                                     body \in {JEmptyBody, JNull, JScalar, JText}}
          ELSE {})

FmIdle ==
    /\ fmPc = "idle"
    /\ fmTarget = <<>>
    /\ fmListing = <<>>
    /\ fmResp = Response(200, JEmptyBody)
    /\ fmOut = NoMatch
    /\ fmExists = Returned(FALSE)
    /\ fmId = Returned("")

FmInit ==
    /\ fmPc = "pick"
    /\ fmTarget \in MatchTargets
    /\ fmListing = <<>>
    /\ fmResp = Response(200, JEmptyBody)
    /\ fmOut = NoMatch
    /\ fmExists = Returned(FALSE)
    /\ fmId = Returned("")

\* the backend gains one more source record before the listing is requested
FmStore ==
    /\ fmPc = "pick"
    /\ Len(fmListing) < MaxCands
    /\ \E doc \in MatchDocs :
          fmListing' = Append(fmListing, DocRecord(doc, Len(fmListing) + 1))
    /\ UNCHANGED <<fmPc, fmTarget, fmResp, fmOut, fmExists, fmId, nfVars, nsVars, upVars, plVars, nbVars, rgVars, akVars>>

FmFind ==
    /\ fmPc = "pick"
    /\ \E resp \in ListingResponses(fmListing) :
          LET found == find_source_for_file(resp, fmTarget)
          IN  /\ fmResp' = resp
              /\ fmOut' = found
              /\ fmExists' = source_exists(found)
              /\ fmId' = get_source_id(found)
    /\ fmPc' = "done"
    /\ UNCHANGED <<fmTarget, fmListing, nfVars, nsVars, upVars, plVars, nbVars, rgVars, akVars>>

FmNext == FmStore \/ FmFind

(***************************************************************************)
(* The uploader against a backend.  A caller runs upload_file_and_process  *)
(* in two steps, its GET /sources and its POST /sources, so that calls of  *)
(* different callers can interleave between the two requests;              *)
(* reference_existing_file is a single POST.  The backend answers a        *)
(* creation by storing the document under the uploaded title or under that *)
(* title with " (n)" before the extension.                                 *)
(***************************************************************************)
Callers == {1, 2}

UploadNames ==
    {<<"a", ".", "p">>, <<"A", " ", "(", "1", ")", ".", "P">>, <<"a">>}

LocalDir == <<"d", "/">>

\* title or Path(file_path).name
DerivedName(path, title) == IF title # <<>> THEN title ELSE PathName(path)

\* if existing:
\* a match is honoured only when it is stored under the uploaded name itself
SkipsOnlyUnsuffixed(existing) == existing.kind = "rec" /\ existing.rec.title = upName

AlwaysUploads(existing) == FALSE

SkipsUpload(existing) == existing.kind = "rec"

\* {"ok": True, "status_code": 200, "sources": [existing], "raw": None}
DedupResult(existing) ==
    [ok |-> TRUE, status_code |-> 200, sources |-> <<existing>>, raw |-> JNull]

\* wrapped.update({"sources": []}); return wrapped
FailureKeepsData(wrapped) ==
    [ok |-> wrapped.ok, status_code |-> wrapped.status_code, data |-> wrapped.data,
     text |-> wrapped.text, error |-> wrapped.error,
     sources |-> IF wrapped.data = JNull THEN <<>> ELSE <<wrapped.data>>]

FailureResult(wrapped) ==
    [ok |-> wrapped.ok, status_code |-> wrapped.status_code, data |-> wrapped.data,
     text |-> wrapped.text, error |-> wrapped.error, sources |-> <<>>]

\* what both operations do with the response to their POST /sources
CreationResult(resp) ==
    LET wrapped == _wrap_response(resp)
        sources == _normalize_sources(wrapped.data)
    IN  IF ~wrapped.ok THEN Returned(FailureResult(wrapped))
        ELSE IF sources.raised THEN Raised
        ELSE Returned([ok |-> TRUE, status_code |-> wrapped.status_code,
                       sources |-> sources.value, raw |-> wrapped.data])

\* the titles the backend may store an upload under
StoredTitles(name) ==
    {name} \cup (IF HasExtension(name) THEN {AddSuffix(name, "1")} ELSE {})

NewDoc(path, title) == [path |-> path, title |-> title, updated |-> 0, created |-> 1]

\* the answers to GET /sources: the full listing, bare or in an envelope,
\* or an answer that is no listing
FullListings(docs) ==
    {Response(200, JList(Listing(docs))), Response(200, Envelope(Listing(docs)))}

OtherListings(docs) ==
    {Response(500, JText), Response(404, JEmptyBody), Response(304, JEmptyBody),
     Response(200, JList(Append(Listing(docs), JScalar)))}

\* the answers to a creation that stored the document `rec`
CreatedAnswers(rec) ==
    {Response(201, rec), Response(200, Envelope(<<rec>>)), Response(200, JEmptyBody)}

\* the answers to a creation that stored nothing
RefusedAnswers ==
    {Response(500, JText), Response(404, JEmptyBody), Response(422, JNull)}

\* no call in progress; listing is the status of the call's GET /sources
NoCall == [op |-> "none", filename |-> <<>>, listing |-> 0]

NoResult == [raised |-> FALSE, value |-> [ok |-> FALSE, status_code |-> 0, sources |-> <<>>]]

UpIdle ==
    /\ upName = <<>>
    /\ upDocs = <<>>
    /\ upPc = [c \in Callers |-> "off"]
    /\ upReq = [c \in Callers |-> NoCall]
    /\ upFound = [c \in Callers |-> NoMatch]
    /\ upResult = [c \in Callers |-> NoResult]
    /\ upAnswer = [c \in Callers |-> 0]
    /\ upCallPosts = [c \in Callers |-> 0]
    /\ upCalls = 0
    /\ upPosts = 0
    /\ upCreated = 0
    /\ upListed = TRUE
    /\ upOverlap = FALSE

UpInit ==
    /\ upName \in UploadNames
    /\ upDocs = <<NewDoc(<<>>, <<"b", ".", "p">>)>>
    /\ upPc = [c \in Callers |-> "idle"]
    /\ upReq = [c \in Callers |-> NoCall]
    /\ upFound = [c \in Callers |-> NoMatch]
    /\ upResult = [c \in Callers |-> NoResult]
    /\ upAnswer = [c \in Callers |-> 0]
    /\ upCallPosts = [c \in Callers |-> 0]
    /\ upCalls = 0
    /\ upPosts = 0
    /\ upCreated = 0
    /\ upListed = TRUE
    /\ upOverlap = FALSE

OthersUnchanged == UNCHANGED <<nfVars, nsVars, fmVars, plVars, nbVars, rgVars, akVars>>

\* upload_file_and_process up to its POST: the derived name, the listing
\* call, and the early return when a document matches
UploadBegin(c) ==
    /\ upPc[c] = "idle"
    /\ upCalls < MaxCalls
    /\ \E title \in {<<>>, upName}, resp \in FullListings(upDocs) \cup OtherListings(upDocs) :
          LET file_path == LocalDir \o upName
              filename == DerivedName(file_path, title)
              existing == find_source_for_file(resp, filename)
          IN  /\ upReq' = [upReq EXCEPT ![c] = [op |-> "upload", filename |-> filename,
                                                   listing |-> resp.status_code]]
              /\ upFound' = [upFound EXCEPT ![c] = existing]
              /\ upListed' = (upListed /\ resp \in FullListings(upDocs))
              /\ IF existing.kind = "raise"
                 THEN /\ upResult' = [upResult EXCEPT ![c] = Raised]
                      /\ upPc' = [upPc EXCEPT ![c] = "done"]
                 ELSE IF SkipsUpload(existing)
                 THEN /\ upResult' = [upResult EXCEPT ![c] = Returned(DedupResult(existing.rec))]
                      /\ upPc' = [upPc EXCEPT ![c] = "done"]
                 ELSE /\ upResult' = [upResult EXCEPT ![c] = NoResult]
                      /\ upPc' = [upPc EXCEPT ![c] = "post"]
    /\ upCallPosts' = [upCallPosts EXCEPT ![c] = 0]
    /\ upCalls' = upCalls + 1
    /\ upOverlap' = (upOverlap \/ \E d \in Callers \ {c} : upPc[d] = "post")
    /\ UNCHANGED <<upName, upDocs, upAnswer, upPosts, upCreated>>
    /\ OthersUnchanged

\* the backend creates the document and the call returns the normalised answer
UploadPostCreated(c) ==
    /\ upPc[c] = "post"
    /\ \E title \in StoredTitles(upReq[c].filename) :
          LET doc == NewDoc(<<"u", "/">> \o title, title)
              rec == DocRecord(doc, Len(upDocs) + 1)
          IN  /\ upDocs' = Append(upDocs, doc)
              /\ \E resp \in CreatedAnswers(rec) :
                    /\ upResult' = [upResult EXCEPT ![c] = CreationResult(resp)]
                    /\ upAnswer' = [upAnswer EXCEPT ![c] = resp.status_code]
    /\ upPc' = [upPc EXCEPT ![c] = "done"]
    /\ upCallPosts' = [upCallPosts EXCEPT ![c] = @ + 1]
    /\ upPosts' = upPosts + 1
    /\ upCreated' = upCreated + 1
    /\ UNCHANGED <<upName, upReq, upFound, upCalls, upListed, upOverlap>>
    /\ OthersUnchanged

\* the backend refuses the creation
UploadPostRefused(c) ==
    /\ upPc[c] = "post"
    /\ \E resp \in RefusedAnswers :
          /\ upResult' = [upResult EXCEPT ![c] = CreationResult(resp)]
          /\ upAnswer' = [upAnswer EXCEPT ![c] = resp.status_code]
    /\ upPc' = [upPc EXCEPT ![c] = "done"]
    /\ upCallPosts' = [upCallPosts EXCEPT ![c] = @ + 1]
    /\ upPosts' = upPosts + 1
    /\ UNCHANGED <<upName, upDocs, upReq, upFound, upCalls, upCreated, upListed, upOverlap>>
    /\ OthersUnchanged

\* reference_existing_file: one POST /sources naming a server-side path
ReferenceExistingFile(c) ==
    /\ upPc[c] = "idle"
    /\ upCalls < MaxCalls
    /\ \E title \in {<<>>, upName} :
          LET server_file_path == <<"u", "/">> \o upName
              name == DerivedName(server_file_path, title)
              doc == NewDoc(server_file_path, name)
              rec == DocRecord(doc, Len(upDocs) + 1)
          IN  /\ upReq' = [upReq EXCEPT ![c] = [op |-> "reference", filename |-> name,
                                                   listing |-> 0]]
              /\ \/ /\ upDocs' = Append(upDocs, doc)
                    /\ \E resp \in CreatedAnswers(rec) :
                          /\ upResult' = [upResult EXCEPT ![c] = CreationResult(resp)]
                          /\ upAnswer' = [upAnswer EXCEPT ![c] = resp.status_code]
                 \/ /\ upDocs' = upDocs
                    /\ \E resp \in RefusedAnswers :
                          /\ upResult' = [upResult EXCEPT ![c] = CreationResult(resp)]
                          /\ upAnswer' = [upAnswer EXCEPT ![c] = resp.status_code]
    /\ upFound' = [upFound EXCEPT ![c] = NoMatch]
    /\ upPc' = [upPc EXCEPT ![c] = "done"]
    /\ upCallPosts' = [upCallPosts EXCEPT ![c] = 1]
    /\ upCalls' = upCalls + 1
    /\ upOverlap' = (upOverlap \/ \E d \in Callers \ {c} : upPc[d] = "post")
    /\ UNCHANGED <<upName, upPosts, upCreated, upListed>>
    /\ OthersUnchanged

\* the caller has its result and is free to call again
CallerReturns(c) ==
    /\ upPc[c] = "done"
    /\ upPc' = [upPc EXCEPT ![c] = "idle"]
    /\ upReq' = [upReq EXCEPT ![c] = NoCall]
    /\ upFound' = [upFound EXCEPT ![c] = NoMatch]
    /\ upResult' = [upResult EXCEPT ![c] = NoResult]
    /\ upAnswer' = [upAnswer EXCEPT ![c] = 0]
    /\ upCallPosts' = [upCallPosts EXCEPT ![c] = 0]
    /\ UNCHANGED <<upName, upDocs, upCalls, upPosts, upCreated, upListed, upOverlap>>
    /\ OthersUnchanged

UpNext ==
    \E c \in Callers :
        \/ UploadBegin(c)
        \/ UploadPostCreated(c)
        \/ UploadPostRefused(c)
        \/ ReferenceExistingFile(c)
        \/ CallerReturns(c)

(***************************************************************************)
(* Application.register_and_process_file: the facade over the two uploader *)
(* operations.  The operation it chooses runs as caller 1 of the uploader. *)
(***************************************************************************)
\* the branch the facade takes: truthiness tests on local_path and server_path
RouteUploadsWhenBoth(local_path, server_path) ==
    IF local_path # <<>> THEN "upload"
    ELSE IF server_path # <<>> THEN "reference"
    ELSE "ValueError"

Route(local_path, server_path) ==
    IF local_path # <<>> /\ server_path # <<>> THEN "ValueError"
    ELSE IF local_path # <<>> THEN "upload"
    ELSE IF server_path # <<>> THEN "reference"
    ELSE "ValueError"

RgIdle ==
    /\ rgPc = "off"
    /\ rgArgs = [local_path |-> <<>>, server_path |-> <<>>]
    /\ rgRoute = "none"
    /\ rgResult = NoResult

RgInit ==
    /\ rgPc = "call"
    /\ rgArgs \in [local_path : {<<>>, LocalDir \o upName},
                   server_path : {<<>>, <<"u", "/">> \o upName}]
    /\ rgRoute = "none"
    /\ rgResult = NoResult

RgOthersUnchanged == UNCHANGED <<nfVars, nsVars, fmVars, upVars, plVars, nbVars, akVars>>

\* the argument checks
RgCall ==
    /\ rgPc = "call"
    /\ rgRoute' = Route(rgArgs.local_path, rgArgs.server_path)
    /\ IF rgRoute' = "ValueError"
       THEN /\ rgPc' = "raised"
            /\ rgResult' = Raised
       ELSE /\ rgPc' = "running"
            /\ rgResult' = rgResult
    /\ UNCHANGED rgArgs
    /\ RgOthersUnchanged

\* return self.uploader.upload_file_and_process(local_path, ...)
RgUpload ==
    /\ rgPc = "running"
    /\ rgRoute = "upload"
    /\ upCalls = 0
    /\ UploadBegin(1)

RgUploadPost ==
    /\ rgPc = "running"
    /\ (UploadPostCreated(1) \/ UploadPostRefused(1))

\* return self.uploader.reference_existing_file(server_path, ...)
RgReference ==
    /\ rgPc = "running"
    /\ rgRoute = "reference"
    /\ upCalls = 0
    /\ ReferenceExistingFile(1)

\* the operation's result, or its exception, is the facade's
RgReturn ==
    /\ rgPc = "running"
    /\ upPc[1] = "done"
    /\ rgPc' = IF upResult[1].raised THEN "raised" ELSE "returned"
    /\ rgResult' = upResult[1]
    /\ UNCHANGED <<rgArgs, rgRoute>>
    /\ RgOthersUnchanged

RgNext == RgCall \/ RgUpload \/ RgUploadPost \/ RgReference \/ RgReturn

(***************************************************************************)
(* poll_source_status.  The clock counts ticks since `start`; a status     *)
(* request takes 0..MaxLatency ticks and time.sleep(poll_interval) takes   *)
(* poll_interval ticks, poll_interval > 0.                                 *)
(***************************************************************************)
\* the JSON object a status endpoint answers with; "None" is a status
\* that is null or missing
StatusBody(status) == [kind |-> "dict", status |-> status, processing_info |-> "info"]

\* {}
EmptyObject == [kind |-> "dict", status |-> "None", processing_info |-> "None"]

PollStatuses == {"completed", "failed", "running", "pending", "unknown", "None"}

\* what a GET of the status endpoint can be answered with: a 2xx, a 304
\* (which has no body; redirects are followed by requests itself), or an
\* error status with any body
PollAnswers ==
    {Response(200, b) : b \in {StatusBody(st) : st \in PollStatuses}
                               \cup {JEmptyBody, JNull, JText, JList(<<>>)}}
    \cup {Response(304, JEmptyBody)}
    \cup {Response(code, b) : code \in {404, 500},
                              b \in {StatusBody("completed"), JEmptyBody, JText}}

\* requests.get raised instead of returning a response
ConnectionError == [status_code |-> 0, body |-> [kind |-> "unreachable"]]

\* the values `data or {}` replaces by {}
Falsy(data) == data = JNull \/ data = JList(<<>>)

\* status in ("completed", "failed")
OnlyCompletedEnds(status) == status = "completed"

AnyStatusEnds(status) == status # "None"

IsTerminal(status) == status \in {"completed", "failed"}

Continue == [kind |-> "continue"]

PollReturn(value) == [kind |-> "return", value |-> value]

PollRaise(exc) == [kind |-> "raise", exc |-> exc]

\* the loop body from the response to the deadline check
\* the loop body with the deadline test moved ahead of the response
HandleAfterDeadline(resp) ==
    LET wrapped == _wrap_response(resp)
        data == IF Falsy(wrapped.data) THEN EmptyObject ELSE wrapped.data
    IN  IF plClock > plTimeout THEN Continue
        ELSE IF ~wrapped.ok THEN Continue
        ELSE IF ~IsDict(data) THEN PollRaise("AttributeError")
        ELSE IF IsTerminal(data.status)
             THEN PollReturn([ok |-> TRUE, status_code |-> wrapped.status_code,
                              status |-> data.status,
                              processing_info |-> data.processing_info, raw |-> data])
             ELSE Continue

HandleIgnoresOk(resp) ==
    LET wrapped == _wrap_response(resp)
        data == IF Falsy(wrapped.data) THEN EmptyObject ELSE wrapped.data
    IN  IF ~IsDict(data) THEN PollRaise("AttributeError")
        ELSE IF IsTerminal(data.status)
             THEN PollReturn([ok |-> TRUE, status_code |-> wrapped.status_code,
                              status |-> data.status,
                              processing_info |-> data.processing_info, raw |-> data])
             ELSE Continue

HandleStatusResponse(resp) ==
    LET wrapped == _wrap_response(resp)
        data == IF Falsy(wrapped.data) THEN EmptyObject ELSE wrapped.data
    IN  IF ~wrapped.ok THEN Continue
        ELSE IF ~IsDict(data) THEN PollRaise("AttributeError")
        ELSE IF IsTerminal(data.status)
             THEN PollReturn([ok |-> TRUE, status_code |-> wrapped.status_code,
                              status |-> data.status,
                              processing_info |-> data.processing_info, raw |-> data])
             ELSE Continue

\* time.time() - start > timeout
DeadlineInverted(elapsed, timeout) == elapsed < timeout

DeadlinePassed(elapsed, timeout) == elapsed > timeout

\* the response is 2xx and carries completed or failed
CarriesTerminal(resp) ==
    /\ resp.status_code \in 200..299
    /\ resp.body.kind = "dict"
    /\ resp.body.status \in {"completed", "failed"}

NoPollResult == [kind |-> "none"]

PlIdle ==
    /\ plPc = "off"
    /\ plTimeout = 0
    /\ plInterval = 1
    /\ plClock = 0
    /\ plRequests = 0
    /\ plLast = ConnectionError
    /\ plResult = NoPollResult
    /\ plFirstTerminal = 0
    /\ plExact = TRUE
    /\ plAllRunning = TRUE

\* start = time.time(), about to issue the first request
PlInit ==
    /\ plPc = "request"
    /\ plTimeout \in 0..MaxTimeout
    /\ plInterval \in 1..MaxInterval
    /\ plClock = 0
    /\ plRequests = 0
    /\ plLast = ConnectionError
    /\ plResult = NoPollResult
    /\ plFirstTerminal = 0
    /\ plExact = TRUE
    /\ plAllRunning = TRUE

PlOthersUnchanged == UNCHANGED <<nfVars, nsVars, fmVars, upVars, nbVars, rgVars, akVars>>

\* one status request that is answered, and what the loop body does with it
PollRequestAnswered ==
    /\ plPc = "request"
    /\ \E resp \in PollAnswers, d \in 0..MaxLatency :
          LET outcome == HandleStatusResponse(resp)
          IN  /\ plLast' = resp
              /\ plClock' = plClock + d
              /\ plExact' = (plExact /\ d = 0)
              /\ plAllRunning' = (plAllRunning /\ resp = Response(200, StatusBody("running")))
              /\ plFirstTerminal' = IF plFirstTerminal = 0 /\ CarriesTerminal(resp)
                                    THEN plRequests + 1 ELSE plFirstTerminal
              /\ plResult' = IF outcome.kind = "continue" THEN plResult ELSE outcome
              /\ plPc' = IF outcome.kind = "return" THEN "returned"
                         ELSE IF outcome.kind = "raise" THEN "raised"
                         ELSE "check"
    /\ plRequests' = plRequests + 1
    /\ UNCHANGED <<plTimeout, plInterval>>
    /\ PlOthersUnchanged

\* one status request that meets a connection error: requests.get raises
\* and nothing in the loop catches it
PollRequestFails ==
    /\ plPc = "request"
    /\ \E d \in 0..MaxLatency :
          /\ plClock' = plClock + d
          /\ plExact' = (plExact /\ d = 0)
    /\ plLast' = ConnectionError
    /\ plAllRunning' = FALSE
    /\ plResult' = PollRaise("ConnectionError")
    /\ plPc' = "raised"
    /\ plRequests' = plRequests + 1
    /\ UNCHANGED <<plTimeout, plInterval, plFirstTerminal>>
    /\ PlOthersUnchanged

\* if time.time() - start > timeout: raise TimeoutError
PollCheckDeadline ==
    /\ plPc = "check"
    /\ IF DeadlinePassed(plClock, plTimeout)
       THEN /\ plPc' = "timeout"
            /\ plResult' = PollRaise("TimeoutError")
       ELSE /\ plPc' = "sleep"
            /\ plResult' = plResult
    /\ UNCHANGED <<plTimeout, plInterval, plClock, plRequests, plLast, plFirstTerminal,
                   plExact, plAllRunning>>
    /\ PlOthersUnchanged

\* time.sleep(poll_interval)
PollSleep ==
    /\ plPc = "sleep"
    /\ plClock' = plClock + plInterval
    /\ plPc' = "request"
    /\ UNCHANGED <<plTimeout, plInterval, plRequests, plLast, plResult, plFirstTerminal,
                   plExact, plAllRunning>>
    /\ PlOthersUnchanged

PlNext == PollRequestAnswered \/ PollRequestFails \/ PollCheckDeadline \/ PollSleep

(***************************************************************************)
(* notebook_ask.  Ids, model names and contexts are strings, "" standing   *)
(* for None; every request is logged with the ids it carries and the       *)
(* status it was answered with (0: no answer, the connection failed).      *)
(* Its requests are answered with a 2xx, a 4xx or a 5xx status: redirects  *)
(* are followed by requests itself.                                        *)
(***************************************************************************)
\* a body resp.json() cannot decode
NotJson == [kind |-> "text"]

\* a body that decodes to a non-empty list
JsonList == [kind |-> "list"]

\* a body that decodes to an object; a key that is missing or null is ""
\* (the message list: <<>>)
JsonObject(id, context, messages, chat, transformation) ==
    [kind |-> "dict", id |-> id, context |-> context, messages |-> messages,
     default_chat_model |-> chat, default_transformation_model |-> transformation]

WithId(id) == JsonObject(id, "", <<>>, "", "")

WithContext(context) == JsonObject("", context, <<>>, "", "")

WithMessages(messages) == JsonObject("", "", messages, "", "")

WithDefaults(chat, transformation) == JsonObject("", "", <<>>, chat, transformation)

NbAnswer(status, body) == [status |-> status, body |-> body]

\* the request raised instead of returning a response
NbUnreachable == NbAnswer(0, NotJson)

ChatMessages ==
    {[type |-> "ai", content |-> "yes"], [type |-> "ai", content |-> "no"],
     [type |-> "human", content |-> "q"]}

MessageLists == UNION {[1..n -> ChatMessages] : n \in 0..MaxMsgs}

DefaultsAnswers ==
    {NbAnswer(200, WithDefaults("cm", "tm")), NbAnswer(200, WithDefaults("", "tm")),
     NbAnswer(200, WithDefaults("", "")), NbAnswer(200, JsonList), NbAnswer(200, NotJson),
     NbAnswer(500, NotJson), NbAnswer(404, WithDefaults("cm", "tm")), NbUnreachable}

CreateAnswers(id) ==
    {NbAnswer(201, WithId(id)), NbAnswer(200, WithId("")), NbAnswer(200, NotJson),
     NbAnswer(404, NotJson), NbAnswer(500, WithId(id)),
     NbUnreachable}

LinkAnswers ==
    {NbAnswer(200, NotJson), NbAnswer(204, NotJson), NbAnswer(404, NotJson),
     NbAnswer(500, NotJson), NbUnreachable}

ContextAnswers ==
    {NbAnswer(200, WithContext("ctx")), NbAnswer(200, WithContext("")),
     NbAnswer(200, NotJson), NbAnswer(500, NotJson),
     NbUnreachable}

ExecuteAnswers ==
    {NbAnswer(200, WithMessages(m)) : m \in MessageLists}
    \cup {NbAnswer(200, NotJson), NbAnswer(500, WithMessages(<<>>)), NbUnreachable}

\* resp.raise_for_status(): HTTPError for a 4xx or 5xx status
RaisesOnlyServerErrors(status) == status >= 500

RaisesForStatus(status) == status >= 400

\* the exception a request and the handling of its response end in, "" if
\* none: the request itself, raise_for_status(), then .json() and .get(..)
ConnectionFailureOnly(answer, reads_body) ==
    IF answer.status = 0 THEN "ConnectionError" ELSE ""

RequestFailure(answer, reads_body) ==
    IF answer.status = 0 THEN "ConnectionError"
    ELSE IF RaisesForStatus(answer.status) THEN "HTTPError"
    ELSE IF reads_body /\ answer.body.kind = "text" THEN "JSONDecodeError"
    ELSE IF reads_body /\ answer.body.kind = "list" THEN "AttributeError"
    ELSE ""

\* if not notebook_id: / if not session_id:
AlwaysCreates(id) == TRUE

Creates(id) == id = ""

\* the step that follows `step` in the body of notebook_ask
NextStepLinksLast(step, notebook_id, session_id) ==
    IF step = "defaults" THEN (IF Creates(notebook_id) THEN "create_notebook" ELSE "context")
    ELSE IF step = "create_notebook" THEN "context"
    ELSE IF step = "context" THEN (IF Creates(session_id) THEN "create_session" ELSE "link")
    ELSE IF step = "create_session" THEN "link"
    ELSE IF step = "link" THEN "execute"
    ELSE "done"

NextStep(step, notebook_id, session_id) ==
    IF step = "defaults" THEN (IF Creates(notebook_id) THEN "create_notebook" ELSE "link")
    ELSE IF step = "create_notebook" THEN "link"
    ELSE IF step = "link" THEN "context"
    ELSE IF step = "context" THEN (IF Creates(session_id) THEN "create_session" ELSE "execute")
    ELSE IF step = "create_session" THEN "execute"
    ELSE "done"

NoDefaults == [kind |-> "dict", default_chat_model |-> "", default_transformation_model |-> ""]

\* defaults after step 1: {} unless the fetch and dresp.json() succeeded;
\* a decoded list stays in `defaults` although the logging call after the
\* assignment fails on it inside the try block
DefaultsIgnoreStatus(answer) ==
    IF answer.status = 0 \/ answer.body.kind = "text"
    THEN NoDefaults
    ELSE IF answer.body.kind = "list" THEN [kind |-> "list"]
    ELSE [kind |-> "dict", default_chat_model |-> answer.body.default_chat_model,
          default_transformation_model |-> answer.body.default_transformation_model]

FetchedDefaults(answer) ==
    IF answer.status = 0 \/ RaisesForStatus(answer.status) \/ answer.body.kind = "text"
    THEN NoDefaults
    ELSE IF answer.body.kind = "list" THEN [kind |-> "list"]
    ELSE [kind |-> "dict", default_chat_model |-> answer.body.default_chat_model,
          default_transformation_model |-> answer.body.default_transformation_model]

\* the last message's content if it is marked "ai", else ""
LastAiAnywhere(msgs) ==
    LET ai == {i \in DOMAIN msgs : msgs[i].type = "ai"}
    IN  IF ai = {} THEN "" ELSE msgs[CHOOSE i \in ai : \A j \in ai : j <= i].content

AiAnswer(msgs) ==
    IF msgs # <<>> /\ msgs[Len(msgs)].type = "ai" THEN msgs[Len(msgs)].content ELSE ""

\* context_config = {"sources": {source_id: "full content"}, "notes": {}}
ContextConfig(source_id) == [sources |-> {<<source_id, "full content">>}, notes |-> {}]

NoConfig == [sources |-> {}, notes |-> {}]

\* .json().get("id") of a creation response
CreatedIdLost(answer) == ""

CreatedId(answer) == IF answer.body.kind = "dict" THEN answer.body.id ELSE ""

\* "model_override": model_override or defaults.get("default_chat_model")
TransformationModel(model_override, defaults) ==
    IF model_override # "" THEN model_override ELSE defaults.default_transformation_model

ExecModel(model_override, defaults) ==
    IF model_override # "" THEN model_override ELSE defaults.default_chat_model

\* one entry of the request log: what the request carries (the document in
\* the link URL and in the context config, the notebook in the link URL and
\* in the context and session payloads, the session, context and model in
\* the execute payload) and the answer it met
Request(step, notebook, session, context, model, answer) ==
    [step |-> step,
     source |-> IF step \in {"link", "context"} THEN nbArgs.source_id ELSE "",
     config |-> IF step = "context" THEN ContextConfig(nbArgs.source_id) ELSE NoConfig,
     notebook |-> IF step \in {"link", "context", "create_session"} THEN notebook ELSE "",
     session |-> IF step = "execute" THEN session ELSE "",
     context |-> IF step = "execute" THEN context ELSE "",
     model |-> model, status |-> answer.status, answer |-> answer]

NoNbResult == [kind |-> "none"]

NbReturn(value) == [kind |-> "return", value |-> value]

NbRaise(exc) == [kind |-> "raise", exc |-> exc]

NbIdle ==
    /\ nbPc = "off"
    /\ nbArgs = [source_id |-> "", notebook_id |-> "", session_id |-> "", model_override |-> ""]
    /\ nbNotebook = ""
    /\ nbSession = ""
    /\ nbDefaults = NoDefaults
    /\ nbContext = ""
    /\ nbLog = <<>>
    /\ nbResult = NoNbResult

\* the call has begun: defaults = {}
NbInit ==
    /\ nbPc = "defaults"
    /\ nbArgs \in [source_id : {"src0", "src1"}, notebook_id : {"", "nb0"},
                   session_id : {"", "s0"}, model_override : {"", "mo"}]
    /\ nbNotebook = nbArgs.notebook_id
    /\ nbSession = nbArgs.session_id
    /\ nbDefaults = NoDefaults
    /\ nbContext = ""
    /\ nbLog = <<>>
    /\ nbResult = NoNbResult

NbOthersUnchanged == UNCHANGED <<nfVars, nsVars, fmVars, upVars, plVars, rgVars, akVars>>

\* a required step: the request is logged; its failure ends the call
NbRequired(step, answer, reads_body, notebook, session, context) ==
    /\ nbLog' = Append(nbLog, Request(step, nbNotebook, nbSession, nbContext, "", answer))
    /\ IF RequestFailure(answer, reads_body) # ""
       THEN /\ nbPc' = "raised"
            /\ nbResult' = NbRaise(RequestFailure(answer, reads_body))
            /\ UNCHANGED <<nbNotebook, nbSession, nbContext>>
       ELSE /\ nbPc' = NextStep(step, nbArgs.notebook_id, nbArgs.session_id)
            /\ nbResult' = nbResult
            /\ nbNotebook' = notebook
            /\ nbSession' = session
            /\ nbContext' = context
    /\ UNCHANGED <<nbArgs, nbDefaults>>
    /\ NbOthersUnchanged

\* 1) GET /models/defaults, every failure swallowed
NbFetchDefaults ==
    /\ nbPc = "defaults"
    /\ \E answer \in DefaultsAnswers :
          /\ nbDefaults' = FetchedDefaults(answer)
          /\ nbLog' = Append(nbLog, Request("defaults", "", "", "", "", answer))
    /\ nbPc' = NextStep("defaults", nbArgs.notebook_id, nbArgs.session_id)
    /\ UNCHANGED <<nbArgs, nbNotebook, nbSession, nbContext, nbResult>>
    /\ NbOthersUnchanged

\* 2) POST /notebooks
NbCreateNotebook ==
    /\ nbPc = "create_notebook"
    /\ \E answer \in CreateAnswers("nb1") :
          NbRequired("create_notebook", answer, TRUE, CreatedId(answer), nbSession,
                     nbContext)

\* 3) POST /notebooks/{notebook_id}/sources/{source_id}
NbLink ==
    /\ nbPc = "link"
    /\ \E answer \in LinkAnswers :
          NbRequired("link", answer, FALSE, nbNotebook, nbSession, nbContext)

\* 4) POST /chat/context
NbBuildContext ==
    /\ nbPc = "context"
    /\ \E answer \in ContextAnswers :
          NbRequired("context", answer, TRUE, nbNotebook, nbSession,
                     IF answer.body.kind = "dict" THEN answer.body.context ELSE "")

\* 5) POST /chat/sessions
NbCreateSession ==
    /\ nbPc = "create_session"
    /\ \E answer \in CreateAnswers("s1") :
          NbRequired("create_session", answer, TRUE, nbNotebook, CreatedId(answer),
                     nbContext)

\* 6) POST /chat/execute and the extraction of the answer; the payload is
\* built first, and defaults.get fails there on a decoded list
NbExecute ==
    /\ nbPc = "execute"
    /\ IF nbArgs.model_override = "" /\ nbDefaults.kind = "list"
       THEN /\ nbPc' = "raised"
            /\ nbResult' = NbRaise("AttributeError")
            /\ nbLog' = nbLog
       ELSE \E answer \in ExecuteAnswers :
              LET model == ExecModel(nbArgs.model_override, nbDefaults)
                  failure == RequestFailure(answer, TRUE)
                  msgs == answer.body.messages
              IN  /\ nbLog' = Append(nbLog, Request("execute", "", nbSession, nbContext,
                                                    model, answer))
                  /\ IF failure # ""
                     THEN /\ nbPc' = "raised"
                          /\ nbResult' = NbRaise(failure)
                     ELSE /\ nbPc' = NextStep("execute", nbArgs.notebook_id,
                                              nbArgs.session_id)
                          /\ nbResult' = NbReturn([notebook_id |-> nbNotebook,
                                                   session_id |-> nbSession,
                                                   messages |-> msgs,
                                                   ai_answer |-> AiAnswer(msgs)])
    /\ UNCHANGED <<nbArgs, nbNotebook, nbSession, nbDefaults, nbContext>>
    /\ NbOthersUnchanged

NbNext ==
    \/ NbFetchDefaults
    \/ NbCreateNotebook
    \/ NbLink
    \/ NbBuildContext
    \/ NbCreateSession
    \/ NbExecute

(***************************************************************************)
(* ask.  With source_ids it fetches the defaults, creates a source chat    *)
(* session, posts the message and reads the response stream line by line;  *)
(* without, it fetches the defaults and posts to /search/ask/simple.       *)
(* Message contents are sequences of characters.  A stream line is its     *)
(* body and whether "data:" precedes it; the body is empty, or text that   *)
(* json.loads rejects, or JSON that is no object, or a JSON object.        *)
(***************************************************************************)
Invocations == {1, 2}

MaxLines == 3

BlankBody == [kind |-> "blank"]

TextBody(text) == [kind |-> "text", text |-> text]

ScalarBody == [kind |-> "scalar", text |-> <<"4", "2">>]

\* a JSON object; a key that is missing, null or empty is "" (content and
\* data: <<>>)
EventBody(type, event, content, data) ==
    [kind |-> "object", type |-> type, event |-> event, content |-> content, data |-> data]

Line(prefix, body) == [prefix |-> prefix, body |-> body]

StreamLines ==
    {Line(FALSE, BlankBody),
     Line(TRUE, TextBody(<<"h", "i">>)),
     Line(FALSE, ScalarBody),
     Line(TRUE, EventBody("ai_message", "", <<"a">>, <<>>)),
     Line(FALSE, EventBody("ai_message", "", <<>>, <<"d", "e">>)),
     Line(TRUE, EventBody("", "ai_message", <<"b", "c">>, <<>>)),
     Line(FALSE, EventBody("tool", "ai_message", <<"t">>, <<>>))}

\* {"type": "text", "text": body}
TextEvent(text) == [kind |-> "object", type |-> "text", text |-> text]

\* ev.get("type") or ev.get("event") or "message"
TagIgnoresEvent(ev) == IF ev.type # "" THEN ev.type ELSE "message"

Tag(ev) == IF ev.type # "" THEN ev.type ELSE IF ev.event # "" THEN ev.event ELSE "message"

\* ev.get("content") or ev.get("data") or ""
Content(ev) == IF ev.content # <<>> THEN ev.content ELSE ev.data

\* "".join(ai_chunks)
RECURSIVE Join(_)
Join(chunks) == IF chunks = <<>> THEN <<>> ELSE Head(chunks) \o Join(Tail(chunks))

\* the body of the loop over r.iter_lines() for one line: the lists after
\* it, and the exception it ends in ("" if none)
EveryLineIsAi(line, events, chunks) ==
    IF line.body.kind = "blank" THEN [events |-> events, chunks |-> chunks, exc |-> ""]
    ELSE IF line.body.kind = "text"
    THEN [events |-> Append(events, TextEvent(line.body.text)), chunks |-> chunks, exc |-> ""]
    ELSE IF line.body.kind = "scalar"
    THEN [events |-> Append(events, line.body), chunks |-> chunks, exc |-> "AttributeError"]
    ELSE [events |-> Append(events, line.body),
          chunks |-> Append(chunks, Content(line.body)), exc |-> ""]

HandleLine(line, events, chunks) ==
    IF line.body.kind = "blank" THEN [events |-> events, chunks |-> chunks, exc |-> ""]
    ELSE IF line.body.kind = "text"
    THEN [events |-> Append(events, TextEvent(line.body.text)), chunks |-> chunks, exc |-> ""]
    ELSE IF line.body.kind = "scalar"
    THEN [events |-> Append(events, line.body), chunks |-> chunks, exc |-> "AttributeError"]
    ELSE [events |-> Append(events, line.body),
          chunks |-> IF Tag(line.body) = "ai_message"
                     THEN Append(chunks, Content(line.body)) ELSE chunks,
          exc |-> ""]

\* events = [] and ai_chunks = [] are lists of the call
SharedList(i) == 1

OwnList(i) == i

\* model_override or defaults.get("default_transformation_model")
\*                or defaults.get("default_chat_model")
StrategyModel(model_override, defaults) ==
    IF model_override # "" THEN model_override
    ELSE IF defaults.default_transformation_model # ""
    THEN defaults.default_transformation_model
    ELSE defaults.default_chat_model

\* one entry of an invocation's request log
AskRequest(step, session, strategy, answer, final, status) ==
    [step |-> step, session |-> session, model |-> strategy, answer_model |-> answer,
     final_model |-> final, status |-> status]

PostAnswers ==
    {NbAnswer(200, NotJson), NbAnswer(404, NotJson), NbAnswer(500, NotJson), NbUnreachable}

SimpleAnswers ==
    {NbAnswer(200, WithMessages(<<>>)), NbAnswer(200, JsonList), NbAnswer(200, NotJson),
     NbAnswer(404, NotJson), NbAnswer(500, WithMessages(<<>>)), NbUnreachable}

AskArgs == [source_ids : {<<>>, <<"src0">>}, model_override : {"", "mo"}]

NoArgs == [source_ids |-> <<>>, model_override |-> ""]

AkIdle ==
    /\ akPc = [i \in Invocations |-> "off"]
    /\ akArgs = [i \in Invocations |-> NoArgs]
    /\ akDefaults = [i \in Invocations |-> NoDefaults]
    /\ akSession = [i \in Invocations |-> ""]
    /\ akLog = [i \in Invocations |-> <<>>]
    /\ akLines = [i \in Invocations |-> <<>>]
    /\ akEvents = [i \in Invocations |-> <<>>]
    /\ akChunks = [i \in Invocations |-> <<>>]
    /\ akResult = [i \in Invocations |-> NoNbResult]

\* the invocations in `active` have begun
AkStart(active) ==
    /\ akPc = [i \in Invocations |-> IF i \in active THEN "defaults" ELSE "off"]
    /\ akArgs \in [Invocations -> AskArgs]
    /\ \A i \in Invocations \ active : akArgs[i] = NoArgs
    /\ akDefaults = [i \in Invocations |-> NoDefaults]
    /\ akSession = [i \in Invocations |-> ""]
    /\ akLog = [i \in Invocations |-> <<>>]
    /\ akLines = [i \in Invocations |-> <<>>]
    /\ akEvents = [i \in Invocations |-> <<>>]
    /\ akChunks = [i \in Invocations |-> <<>>]
    /\ akResult = [i \in Invocations |-> NoNbResult]

AkInit == AkStart({1})

AkOthersUnchanged == UNCHANGED <<nfVars, nsVars, fmVars, upVars, plVars, nbVars, rgVars>>

\* GET /models/defaults, every failure swallowed, and the first use of
\* `defaults`, which fails on a decoded value that is no object: at
\* line 85 unless model_override is set, at line 151 always
AskFetchDefaults(i) ==
    /\ akPc[i] = "defaults"
    /\ \E answer \in DefaultsAnswers :
          LET defaults == FetchedDefaults(answer)
              streams == akArgs[i].source_ids # <<>>
              fails == /\ defaults.kind = "list"
                       /\ ~streams \/ akArgs[i].model_override = ""
          IN  /\ akDefaults' = [akDefaults EXCEPT ![i] = defaults]
              /\ akLog' = [akLog EXCEPT ![i] =
                              Append(@, AskRequest("defaults", "", "", "", "", answer.status))]
              /\ akPc' = [akPc EXCEPT ![i] = IF fails THEN "raised"
                                             ELSE IF streams THEN "session" ELSE "simple"]
              /\ akResult' = [akResult EXCEPT ![i] =
                                 IF fails THEN NbRaise("AttributeError") ELSE @]
    /\ UNCHANGED <<akArgs, akSession, akLines, akEvents, akChunks>>
    /\ AkOthersUnchanged

\* POST /sources/{source_id}/chat/sessions; every failure is logged and
\* raised again
AskCreateSession(i) ==
    /\ akPc[i] = "session"
    /\ \E answer \in CreateAnswers("s1") :
          LET failure == RequestFailure(answer, TRUE)
              strategy_model == StrategyModel(akArgs[i].model_override, akDefaults[i])
          IN  /\ akLog' = [akLog EXCEPT ![i] =
                              Append(@, AskRequest("session", "", strategy_model, "", "",
                                                   answer.status))]
              /\ akPc' = [akPc EXCEPT ![i] = IF failure # "" THEN "raised" ELSE "post"]
              /\ akResult' = [akResult EXCEPT ![i] =
                                 IF failure # "" THEN NbRaise(failure) ELSE @]
              /\ akSession' = [akSession EXCEPT ![i] =
                                  IF failure # "" THEN @ ELSE CreatedId(answer)]
    /\ UNCHANGED <<akArgs, akDefaults, akLines, akEvents, akChunks>>
    /\ AkOthersUnchanged

\* the two lists are created, then POST .../sessions/{session_id}/messages
\* with stream=True and raise_for_status()
AskPost(i) ==
    /\ akPc[i] = "post"
    /\ \E answer \in PostAnswers :
          LET failure == RequestFailure(answer, FALSE)
              strategy_model == StrategyModel(akArgs[i].model_override, akDefaults[i])
          IN  /\ akLog' = [akLog EXCEPT ![i] =
                              Append(@, AskRequest("post", akSession[i], strategy_model, "", "",
                                                   answer.status))]
              /\ akPc' = [akPc EXCEPT ![i] = IF failure # "" THEN "raised" ELSE "lines"]
              /\ akResult' = [akResult EXCEPT ![i] =
                                 IF failure # "" THEN NbRaise(failure) ELSE @]
    /\ akEvents' = [akEvents EXCEPT ![OwnList(i)] = <<>>]
    /\ akChunks' = [akChunks EXCEPT ![OwnList(i)] = <<>>]
    /\ UNCHANGED <<akArgs, akDefaults, akSession, akLines>>
    /\ AkOthersUnchanged

\* the stream delivers one more line
AskLine(i) ==
    /\ akPc[i] = "lines"
    /\ Len(akLines[i]) < MaxLines
    /\ \E line \in StreamLines :
          LET after == HandleLine(line, akEvents[OwnList(i)], akChunks[OwnList(i)])
          IN  /\ akLines' = [akLines EXCEPT ![i] = Append(@, line)]
              /\ akEvents' = [akEvents EXCEPT ![OwnList(i)] = after.events]
              /\ akChunks' = [akChunks EXCEPT ![OwnList(i)] = after.chunks]
              /\ akPc' = [akPc EXCEPT ![i] = IF after.exc # "" THEN "raised" ELSE @]
              /\ akResult' = [akResult EXCEPT ![i] =
                                 IF after.exc # "" THEN NbRaise(after.exc) ELSE @]
    /\ UNCHANGED <<akArgs, akDefaults, akSession, akLog>>
    /\ AkOthersUnchanged

\* the stream ends: the answer is joined and the result returned
AskStreamEnds(i) ==
    /\ akPc[i] = "lines"
    /\ akPc' = [akPc EXCEPT ![i] = "done"]
    /\ akResult' = [akResult EXCEPT ![i] =
                       NbReturn([search_results |-> <<>>,
                                 total |-> Len(akChunks[OwnList(i)]),
                                 answer |-> Join(akChunks[OwnList(i)]),
                                 events |-> akEvents[OwnList(i)]])]
    /\ UNCHANGED <<akArgs, akDefaults, akSession, akLog, akLines, akEvents, akChunks>>
    /\ AkOthersUnchanged

\* POST /search/ask/simple; the decoded body is the result
AskSimple(i) ==
    /\ akPc[i] = "simple"
    /\ \E answer \in SimpleAnswers :
          LET override == akArgs[i].model_override
              chat == akDefaults[i].default_chat_model
              strategy == IF akDefaults[i].default_transformation_model # ""
                          THEN akDefaults[i].default_transformation_model ELSE chat
              failure == IF answer.status = 0 THEN "ConnectionError"
                         ELSE IF RaisesForStatus(answer.status) THEN "HTTPError"
                         ELSE IF answer.body.kind = "text" THEN "JSONDecodeError"
                         ELSE ""
          IN  /\ akLog' = [akLog EXCEPT ![i] =
                              Append(@, IF override # ""
                                        THEN AskRequest("simple", "", override, override,
                                                        override, answer.status)
                                        ELSE AskRequest("simple", "", strategy, chat, chat,
                                                        answer.status))]
              /\ akPc' = [akPc EXCEPT ![i] = IF failure # "" THEN "raised" ELSE "done"]
              /\ akResult' = [akResult EXCEPT ![i] =
                                 IF failure # "" THEN NbRaise(failure)
                                 ELSE NbReturn(answer.body)]
    /\ UNCHANGED <<akArgs, akDefaults, akSession, akLines, akEvents, akChunks>>
    /\ AkOthersUnchanged

AkNext ==
    \E i \in Invocations :
        \/ AskFetchDefaults(i)
        \/ AskCreateSession(i)
        \/ AskPost(i)
        \/ AskLine(i)
        \/ AskStreamEnds(i)
        \/ AskSimple(i)

(***************************************************************************)
(* Specifications                                                          *)
(***************************************************************************)
InitNormalize ==
    /\ NfInit
    /\ NsIdle
    /\ FmIdle
    /\ UpIdle
    /\ PlIdle
    /\ NbIdle
    /\ RgIdle
    /\ AkIdle

SpecNormalize == InitNormalize /\ [][NfNext]_vars

InitShapes ==
    /\ NfIdle
    /\ NsInit
    /\ FmIdle
    /\ UpIdle
    /\ PlIdle
    /\ NbIdle
    /\ RgIdle
    /\ AkIdle

SpecShapes == InitShapes /\ [][NsNext]_vars

InitMatch ==
    /\ NfIdle
    /\ NsIdle
    /\ FmInit
    /\ UpIdle
    /\ PlIdle
    /\ NbIdle
    /\ RgIdle
    /\ AkIdle

SpecMatch == InitMatch /\ [][FmNext]_vars

InitUpload ==
    /\ NfIdle
    /\ NsIdle
    /\ FmIdle
    /\ UpInit
    /\ PlIdle
    /\ NbIdle
    /\ RgIdle
    /\ AkIdle

SpecUpload == InitUpload /\ [][UpNext]_vars

InitPoll ==
    /\ NfIdle
    /\ NsIdle
    /\ FmIdle
    /\ UpIdle
    /\ PlInit
    /\ NbIdle
    /\ RgIdle
    /\ AkIdle

SpecPoll == InitPoll /\ [][PlNext]_vars

InitNotebook ==
    /\ NfIdle
    /\ NsIdle
    /\ FmIdle
    /\ UpIdle
    /\ PlIdle
    /\ NbInit
    /\ RgIdle
    /\ AkIdle

SpecNotebook == InitNotebook /\ [][NbNext]_vars

InitRegister ==
    /\ NfIdle
    /\ NsIdle
    /\ FmIdle
    /\ UpInit
    /\ PlIdle
    /\ NbIdle
    /\ RgInit
    /\ AkIdle

SpecRegister == InitRegister /\ [][RgNext]_vars

InitAsk ==
    /\ NfIdle
    /\ NsIdle
    /\ FmIdle
    /\ UpIdle
    /\ PlIdle
    /\ NbIdle
    /\ RgIdle
    /\ AkInit

SpecAsk == InitAsk /\ [][AkNext]_vars

\* one call of notebook_ask or one call of ask
InitQuery ==
    /\ NfIdle
    /\ NsIdle
    /\ FmIdle
    /\ UpIdle
    /\ PlIdle
    /\ RgIdle
    /\ \/ NbInit /\ AkIdle
       \/ NbIdle /\ AkInit

SpecQuery == InitQuery /\ [][NbNext \/ AkNext]_vars

\* the answers of a backend without failures, and the lines of its streams
SteadyAnswers(step) ==
    IF step = "defaults" THEN {NbAnswer(200, WithDefaults("cm", "tm"))}
    ELSE IF step = "create_notebook" THEN {NbAnswer(201, WithId("nb1"))}
    ELSE IF step = "link" THEN {NbAnswer(200, NotJson)}
    ELSE IF step = "context" THEN {NbAnswer(200, WithContext("ctx"))}
    ELSE IF step = "create_session" THEN {NbAnswer(201, WithId("s1"))}
    ELSE {NbAnswer(200, WithMessages(<<>>)),
          NbAnswer(200, WithMessages(<<[type |-> "ai", content |-> "yes"]>>))}

SteadyLines ==
    {Line(TRUE, EventBody("ai_message", "", <<"a">>, <<>>)), Line(TRUE, TextBody(<<"h", "i">>))}

Steady ==
    /\ nbPc # "raised"
    /\ \A k \in DOMAIN nbLog : nbLog[k].answer \in SteadyAnswers(nbLog[k].step)
    /\ \A i \in Invocations :
          /\ akPc[i] # "raised"
          /\ akLog[i] # <<>>
                => akDefaults[i] = FetchedDefaults(NbAnswer(200, WithDefaults("cm", "tm")))
          /\ \A k \in DOMAIN akLog[i] :
                akLog[i][k].status = (IF akLog[i][k].step = "session" THEN 201 ELSE 200)
          /\ \A k \in DOMAIN akLines[i] : akLines[i][k] \in SteadyLines

\* one call of notebook_ask and two streaming calls of ask on one
\* QueryClient, their steps interleaved in every order
InitConcurrent ==
    /\ NfIdle
    /\ NsIdle
    /\ FmIdle
    /\ UpIdle
    /\ PlIdle
    /\ RgIdle
    /\ NbInit
    /\ nbArgs = [source_id |-> "src0", notebook_id |-> "", session_id |-> "",
                 model_override |-> ""]
    /\ AkStart(Invocations)
    /\ akArgs = [i \in Invocations |->
                    [source_ids |-> <<"src0">>,
                     model_override |-> IF i = 1 THEN "mo" ELSE ""]]

ConcurrentNext ==
    \/ NbFetchDefaults /\ Steady'
    \/ NbCreateNotebook /\ Steady'
    \/ NbLink /\ Steady'
    \/ NbBuildContext /\ Steady'
    \/ NbCreateSession /\ Steady'
    \/ NbExecute /\ Steady'
    \/ \E i \in Invocations :
          \/ AskFetchDefaults(i) /\ Steady'
          \/ AskCreateSession(i) /\ Steady'
          \/ AskPost(i) /\ Steady'
          \/ AskLine(i) /\ Steady'
          \/ AskStreamEnds(i) /\ Steady'

SpecConcurrent == InitConcurrent /\ [][ConcurrentNext]_vars

(***************************************************************************)
(* Properties of upload_file_and_process and reference_existing_file       *)
(* (SpecUpload)                                                            *)
(***************************************************************************)
IsUpload(c) == upReq[c].op = "upload"

\* C1: when the listing call of an upload finds a match for the derived file
\* name, the call issues no POST /sources and returns ok, status 200 and the
\* matched record as its only source.
C1_MatchSkipsUpload ==
    \A c \in Callers :
        (IsUpload(c) /\ upFound[c].kind = "rec")
        => /\ upPc[c] = "done"
           /\ upCallPosts[c] = 0
           /\ ~upResult[c].raised
           /\ upResult[c].value.ok
           /\ upResult[c].value.status_code = 200
           /\ upResult[c].value.sources = <<upFound[c].rec>>

\* a second upload finds the document the first one created, stored under a
\* suffixed title, and returns it
C1_Witness ==
    \E c \in Callers :
        /\ IsUpload(c)
        /\ upFound[c].kind = "rec"
        /\ HasExtension(upName)
        /\ upFound[c].rec.title = AddSuffix(upName, "1")
        /\ upCreated = 1
        /\ upPosts = 1

\* C2: in a sequence of uploads of one file name, run one after another
\* against a backend whose listing always succeeds and shows every document
\* created so far under the uploaded title or that title with " (n)" before
\* the extension, no call uploads again once a creation has succeeded.
C2_NoSecondCreation ==
    (upListed /\ ~upOverlap /\ upCreated >= 1)
    => /\ upCreated = 1
       /\ \A c \in Callers : ~(IsUpload(c) /\ upPc[c] = "post")

\* C10: a creation answered with a non-2xx status makes either operation
\* return, without raising, a result with ok false, that status, an empty
\* sources list and an error text (the error field or the response text).
C10_RefusalIsFailureResult ==
    \A c \in Callers :
        (upPc[c] = "done" /\ upAnswer[c] # 0 /\ ~(upAnswer[c] \in 200..299))
        => /\ ~upResult[c].raised
           /\ ~upResult[c].value.ok
           /\ upResult[c].value.status_code = upAnswer[c]
           /\ upResult[c].value.sources = <<>>
           /\ (upResult[c].value.error # "None" \/ HasText(upResult[c].value.text))

\* C11: every result either operation returns, on the dedup path, after an
\* accepted creation and after a refused one, has an empty sources list
\* whenever its ok is false.
C11_FailureHasNoSources ==
    \A c \in Callers :
        (upPc[c] = "done" /\ ~upResult[c].raised /\ ~upResult[c].value.ok)
        => upResult[c].value.sources = <<>>

\* a creation refused with a 500 that carries a body has come back as a
\* failure result
C11_Witness ==
    \E c \in Callers :
        /\ upPc[c] = "done"
        /\ upAnswer[c] = 500
        /\ ~upResult[c].raised
        /\ ~upResult[c].value.ok
        /\ upResult[c].value.data # JNull
        /\ upResult[c].value.sources = <<>>

\* the two callers are in their first calls, uploads of one file name that
\* overlapped, and every listing was the full one
TwoConcurrentUploads ==
    /\ upCalls = 2
    /\ upListed
    /\ upOverlap
    /\ \A c \in Callers : IsUpload(c)
    /\ upReq[1].filename = upReq[2].filename

\* C32 as stated: two concurrent uploads of one file name, against a backend
\* that lists no match at the start, issue at most one POST /sources
\* between them.
C32_OneCreationBetweenTwo ==
    TwoConcurrentUploads => upCallPosts[1] + upCallPosts[2] <= 1

\* C32: each upload issues at most one POST /sources, and issues it only
\* when its own listing showed no match; the listing and the creation are
\* two requests, so two concurrent uploads of one file name issue at most
\* two creations between them, one each.
C32_OneCreationPerCall ==
    /\ \A c \in Callers :
          IsUpload(c)
          => /\ upCallPosts[c] <= 1
             /\ upPc[c] = "post" => (upFound[c] = NoMatch /\ upCallPosts[c] = 0)
             /\ upCallPosts[c] = 1 => (upFound[c] = NoMatch /\ upPc[c] = "done")
    /\ TwoConcurrentUploads => upPosts <= 2

\* both callers listed before either creation was stored, and both created
C32_Witness ==
    /\ TwoConcurrentUploads
    /\ \A c \in Callers : upPc[c] = "done" /\ upCallPosts[c] = 1
    /\ upCreated = 2
    /\ Len(upDocs) = 3

\* the call's GET /sources was answered with a status outside 2xx
ListingRefused(c) == IsUpload(c) /\ ~(upReq[c].listing \in 200..299)

\* C33: when the GET /sources of an upload is answered non-2xx, the matcher
\* gives "absent" as it does for no match, and the upload goes on to its
\* POST /sources; the call's result is that of the creation, and the failed
\* listing is not reported to the caller.
C33_FailedListingDoesNotBlock ==
    \A c \in Callers :
        ListingRefused(c)
        => /\ upFound[c] = NoMatch
           /\ upPc[c] \in {"post", "done"}
           /\ upPc[c] = "post" => upResult[c] = NoResult
           /\ upPc[c] = "done"
                 => /\ upCallPosts[c] = 1
                    /\ ~upResult[c].raised
                    /\ upResult[c].value.status_code = upAnswer[c]
                    /\ upResult[c].value.ok = (upAnswer[c] \in 200..299)

\* the listing answered 500, the creation 201: the call returned success
C33_Witness ==
    \E c \in Callers :
        /\ IsUpload(c)
        /\ upReq[c].listing = 500
        /\ upPc[c] = "done"
        /\ upCallPosts[c] = 1
        /\ upAnswer[c] = 201
        /\ upResult[c].value.ok
        /\ Len(upResult[c].value.sources) = 1

(***************************************************************************)
(* Properties of find_source_for_file (SpecMatch).  The tier predicates    *)
(* are those of the matcher's contract, stated on the documents as the     *)
(* backend lists them; an empty stored path or title counts as absent.     *)
(***************************************************************************)
StoredPath(item) == IF item.asset.kind = "dict" THEN item.asset.file_path ELSE <<>>

ExactPathMatch(item, target) == StoredPath(item) # <<>> /\ StoredPath(item) = target

BasenameMatch(item, target) ==
    \/ StoredPath(item) # <<>> /\ Lower(PathName(StoredPath(item))) = Lower(PathName(target))
    \/ item.title # <<>> /\ Lower(item.title) = Lower(PathName(target))

NormalizedMatch(item, target) ==
    item.title # <<>> /\ normalize_filename(item.title) = normalize_filename(target)

\* the highest tier the document matches in: 1, 2, 3, or 0 for none
ContractTier(item, target) ==
    IF ExactPathMatch(item, target) THEN 1
    ELSE IF BasenameMatch(item, target) THEN 2
    ELSE IF NormalizedMatch(item, target) THEN 3
    ELSE 0

\* updated, else created, else the empty string
ContractKey(item) == IF item.updated # 0 THEN item.updated ELSE item.created

\* the GET /sources succeeded and carried the listing
ListingSucceeded ==
    /\ fmPc = "done"
    /\ fmResp.status_code = 200
    /\ fmResp.body \in {JList(fmListing), Envelope(fmListing)}

Positions == 1..Len(fmListing)

\* C3: a match by exact stored path anywhere in the listing makes the result
\* an exact-path match; failing that, a match by basename or title makes it
\* a basename-tier match; a normalised-suffix match is returned only when no
\* document matches in a higher tier, whatever the order and the timestamps.
C3_HigherTierWins ==
    ListingSucceeded
    => LET tiers == {ContractTier(fmListing[i], fmTarget) : i \in Positions}
           got == IF fmOut.kind = "rec" THEN ContractTier(fmOut.rec.raw, fmTarget) ELSE 0
       IN  /\ 1 \in tiers => got = 1
           /\ (1 \notin tiers /\ 2 \in tiers) => got = 2
           /\ got = 3 => (1 \notin tiers /\ 2 \notin tiers)

\* a normalised-tier match with the newer timestamp is listed first, a
\* higher-tier match second, and the second is returned
C3_Witness ==
    /\ ListingSucceeded
    /\ Len(fmListing) = 2
    /\ ContractTier(fmListing[1], fmTarget) = 3
    /\ ContractTier(fmListing[2], fmTarget) \in {1, 2}
    /\ ContractKey(fmListing[1]) > ContractKey(fmListing[2])
    /\ fmOut.kind = "rec"
    /\ fmOut.rec.raw = fmListing[2]

TiedPositions ==
    {i \in Positions :
        /\ ContractTier(fmListing[i], fmTarget) = ContractTier(fmOut.rec.raw, fmTarget)
        /\ ContractKey(fmListing[i]) = ContractKey(fmOut.rec.raw)}

\* C35: among the matches of the winning tier whose tie-break keys are
\* equal and greatest (one timestamp, or none at all), the record returned
\* is the one listed first; the result depends on the listing and the
\* target only, not on the shape the listing is delivered in.
C35_FirstListedAmongEqualKeys ==
    ListingSucceeded
    => /\ fmOut = find_source_for_file(Response(200, JList(fmListing)), fmTarget)
       /\ fmOut.kind = "rec"
             => \E j \in TiedPositions :
                   /\ fmOut.rec.raw = fmListing[j]
                   /\ \A i \in TiedPositions : j <= i

\* two matches of one tier without any timestamp: the first is returned
C35_Witness ==
    /\ ListingSucceeded
    /\ Len(fmListing) = 2
    /\ ContractTier(fmListing[1], fmTarget) = ContractTier(fmListing[2], fmTarget)
    /\ ContractTier(fmListing[1], fmTarget) # 0
    /\ ContractKey(fmListing[1]) = 0
    /\ ContractKey(fmListing[2]) = 0
    /\ fmListing[1].title # fmListing[2].title
    /\ fmOut.kind = "rec"
    /\ fmOut.rec.raw = fmListing[1]

\* C5: when the listing succeeds a record is returned exactly when some
\* document satisfies one of the three tier predicates, and the record is
\* the normalised form of one of the documents listed.
C5_FoundIffSomeTierMatches ==
    ListingSucceeded
    => /\ fmOut.kind \in {"rec", "none"}
       /\ fmOut.kind = "rec"
            <=> \E i \in Positions :
                   \/ ExactPathMatch(fmListing[i], fmTarget)
                   \/ BasenameMatch(fmListing[i], fmTarget)
                   \/ NormalizedMatch(fmListing[i], fmTarget)
       /\ fmOut.kind = "rec"
            => \E i \in Positions :
                   /\ fmOut.rec.raw = fmListing[i]
                   /\ fmOut.rec.id = fmListing[i].id
                   /\ fmOut.rec.title = fmListing[i].title
                   /\ fmOut.rec.asset_file_path = StoredPath(fmListing[i])
                   /\ fmOut.rec.updated = fmListing[i].updated
                   /\ fmOut.rec.created = fmListing[i].created

\* the only matching document matches by its normalised title alone
C5_Witness ==
    /\ ListingSucceeded
    /\ Len(fmListing) = 2
    /\ ContractTier(fmListing[1], fmTarget) = 0
    /\ ContractTier(fmListing[2], fmTarget) = 3
    /\ fmOut.kind = "rec"
    /\ fmOut.rec.raw = fmListing[2]

\* C7: whatever the listing endpoint answers, find_source_for_file,
\* source_exists and get_source_id end by returning (a record or its id, or
\* absent / False / None) and never by raising.
C7_NeverRaises ==
    fmPc = "done" => (fmOut.kind # "raise" /\ ~fmExists.raised /\ ~fmId.raised)

(***************************************************************************)
(* Properties of _normalize_sources (SpecShapes)                           *)
(***************************************************************************)
AllObjects(items) == \A i \in 1..Len(items) : IsDict(items[i])

\* has an id or a title
RecordShaped(item) == IsDict(item) /\ (GetId(item) # "" \/ item.title # <<>>)

\* C8: a list of record objects normalises to the same records whether it
\* is handed over bare or as {results: list}, and a single record object
\* (one that has an id or a title) normalises as the one-element list does.
C8_ShapeInvariance ==
    /\ (nsPc = "done" /\ nsShape = "results" /\ AllObjects(nsItems))
          => (~nsOut.raised /\ nsOut = nsRef)
    /\ (nsPc = "done" /\ nsShape = "single" /\ RecordShaped(nsItems[1]))
          => (~nsOut.raised /\ nsOut = nsRef)

\* two records in an envelope come out as two records
C8_Witness ==
    /\ nsPc = "done"
    /\ nsShape = "results"
    /\ Len(nsItems) = 2
    /\ AllObjects(nsItems)
    /\ ~nsOut.raised
    /\ Len(nsOut.value) = 2
    /\ nsOut.value[2].raw = nsItems[2]

\* C9: _normalize_sources returns a sequence of records for every payload
\* and never raises.
C9_NormalizerNeverRaises == nsPc = "done" => ~nsOut.raised

\* C28: a record-shaped object (one with an id or a title) that also has a
\* results field holding a list normalises to the one wrapped record: the
\* single-record rule is applied before the results rule.
C28_SingleRecordRuleFirst ==
    (nsPc = "done" /\ nsShape = "object+results" /\ RecordShaped(nsPayload))
    => nsOut = NormalizeEach(<<nsPayload>>)

(***************************************************************************)
(* Property of register_and_process_file (SpecRegister)                    *)
(***************************************************************************)
GivenLocal == rgArgs.local_path # <<>>

GivenServer == rgArgs.server_path # <<>>

\* C26: called with both paths or with neither, the facade fails with
\* ValueError and no uploader operation, hence no request, has begun; with
\* exactly one path it runs the one matching uploader operation, once.
C26_ExactlyOnePathOrValueError ==
    rgPc # "call"
    => /\ (GivenLocal = GivenServer)
             => /\ rgPc = "raised"
                /\ rgRoute = "ValueError"
                /\ upCalls = 0
                /\ upPosts = 0
                /\ \A c \in Callers : upPc[c] = "idle" /\ upReq[c] = NoCall
       /\ (GivenLocal /\ ~GivenServer)
             => /\ rgRoute = "upload"
                /\ upCalls <= 1
                /\ upReq[1].op \in {"none", "upload"}
                /\ rgPc \in {"returned", "raised"} => upReq[1].op = "upload"
       /\ (GivenServer /\ ~GivenLocal)
             => /\ rgRoute = "reference"
                /\ upCalls <= 1
                /\ upReq[1].op \in {"none", "reference"}
                /\ rgPc \in {"returned", "raised"} => upReq[1].op = "reference"

\* both paths given: ValueError, and the uploader was never called
C26_Witness ==
    /\ GivenLocal
    /\ GivenServer
    /\ rgPc = "raised"
    /\ rgRoute = "ValueError"
    /\ upCalls = 0

(***************************************************************************)
(* Properties of poll_source_status (SpecPoll)                             *)
(***************************************************************************)
Answered == plRequests > 0 /\ plLast # ConnectionError

Is2xx(resp) == resp.status_code \in 200..299

\* the response is an object, or has no content, and its status is none of
\* completed and failed: pending, running, unknown or absent
CarriesNonTerminal(resp) ==
    \/ resp.body \in {JEmptyBody, JNull}
    \/ resp.body.kind = "dict" /\ resp.body.status \in {"pending", "running", "unknown", "None"}

C13_RunningEndsInTimeout ==
    (plRequests > 0 /\ plAllRunning /\ plExact)
    => /\ plPc \in {"check", "sleep", "request", "timeout"}
       /\ plRequests <= (plTimeout \div plInterval) + 2
       /\ plPc = "timeout"
             => /\ plResult = PollRaise("TimeoutError")
                /\ plClock > plTimeout
                /\ plRequests >= plTimeout \div plInterval

\* the longest timeout with the shortest interval has run out
C13_Witness ==
    /\ plPc = "timeout"
    /\ plAllRunning
    /\ plExact
    /\ plTimeout = MaxTimeout
    /\ plInterval = 1
    /\ plRequests = MaxTimeout + 2

\* C14: when the k-th response is the first 2xx response that carries
\* completed or failed, the poll has returned it after exactly k requests.
C14_ReturnsAtFirstTerminal ==
    plFirstTerminal # 0
    => /\ plPc = "returned"
       /\ plRequests = plFirstTerminal
       /\ plResult.kind = "return"
       /\ plResult.value.status = plLast.body.status
       /\ plResult.value.raw = plLast.body

\* "completed" on the third request
C14_Witness ==
    /\ plFirstTerminal = 3
    /\ plRequests = 3
    /\ plPc = "returned"
    /\ plResult.value.status = "completed"

\* C15: a response with a non-2xx status does not end the poll: it is not
\* returned and nothing is raised for it, and the loop goes on to sleep and
\* to the next request unless the deadline has passed.
C15_Non2xxIsTransient ==
    (Answered /\ ~Is2xx(plLast))
    => /\ plPc \in {"check", "sleep", "request", "timeout"}
       /\ plResult \in {NoPollResult, PollRaise("TimeoutError")}
       /\ plPc = "timeout" => plClock > plTimeout

\* a 500 that carries "completed" was received and the loop is sleeping
C15_Witness ==
    /\ plPc = "sleep"
    /\ plRequests = 1
    /\ plLast = Response(500, StatusBody("completed"))
    /\ plResult = NoPollResult

\* C16: a status request that fails, by a connection error or by a non-2xx
\* status, does not abort the poll.
C16_TransportFailureIsTransient ==
    (plRequests > 0 /\ (plLast = ConnectionError \/ ~Is2xx(plLast)))
    => plPc \in {"check", "sleep", "request", "timeout"}

\* C17: with every request answered, the poll is ended only by a response
\* that carries a terminal status or by the deadline.
C17_EndsOnlyByStatusOrDeadline ==
    (plPc \in {"returned", "raised", "timeout"} /\ Answered)
    => \/ plPc = "returned" /\ plResult.value.status \in {"completed", "failed"}
       \/ plPc = "timeout" /\ plResult = PollRaise("TimeoutError") /\ plClock > plTimeout

\* C31: the poll issues at least one status request before it ends or looks
\* at the deadline; a 2xx response that carries completed or failed is
\* returned as a normal result even when the deadline has already passed,
\* a timeout of 0 included; TimeoutError is raised only after a response
\* that is non-2xx or carries no terminal status.
C31_ResponseBeforeDeadline ==
    /\ plPc \in {"check", "sleep", "returned", "raised", "timeout"} => plRequests >= 1
    /\ (Answered /\ CarriesTerminal(plLast))
          => /\ plPc = "returned"
             /\ plResult.kind = "return"
             /\ plResult.value.status = plLast.body.status
    /\ plPc = "timeout"
          => /\ Answered
             /\ ~CarriesTerminal(plLast)
             /\ plResult = PollRaise("TimeoutError")

\* timeout 0 and interval 1: the second request starts past the deadline,
\* and its "completed" is returned
C31_Witness ==
    /\ plPc = "returned"
    /\ plTimeout = 0
    /\ plInterval = 1
    /\ plExact
    /\ plRequests = 2
    /\ plClock > plTimeout
    /\ plLast = Response(200, StatusBody("completed"))
    /\ plResult.value.status = "completed"

(***************************************************************************)
(* Properties of notebook_ask (SpecNotebook)                               *)
(***************************************************************************)
\* how many requests of the step the call has issued
Issued(step) == Cardinality({i \in DOMAIN nbLog : nbLog[i].step = step})

\* the steps of the requests issued so far, in the order of issue
StepsIssued == [i \in DOMAIN nbLog |-> nbLog[i].step]

\* the order of the requests of a call with these arguments
FixedOrder ==
    <<"defaults">>
    \o (IF nbArgs.notebook_id = "" THEN <<"create_notebook">> ELSE <<>>)
    \o <<"link", "context">>
    \o (IF nbArgs.session_id = "" THEN <<"create_session">> ELSE <<>>)
    \o <<"execute">>

RequiredSteps == {"create_notebook", "link", "context", "create_session", "execute"}

\* the request was not answered, or answered with a non-2xx status
FailedRequest(request) == request.status \notin 200..299

\* C18: a call that ran to completion issued POST /notebooks once if no
\* notebook_id was supplied and never if one was, and POST /chat/sessions
\* once if no session_id was supplied and never if one was.
C18_CreatesOnlyWhatIsOmitted ==
    nbPc = "done"
    => /\ Issued("create_notebook") = (IF nbArgs.notebook_id = "" THEN 1 ELSE 0)
       /\ Issued("create_session") = (IF nbArgs.session_id = "" THEN 1 ELSE 0)

\* a completed call with a supplied notebook that created its session
C18_Witness ==
    /\ nbPc = "done"
    /\ nbArgs.notebook_id = "nb0"
    /\ nbArgs.session_id = ""
    /\ Issued("create_notebook") = 0
    /\ Issued("create_session") = 1
    /\ nbResult.kind = "return"
    /\ nbResult.value.notebook_id = "nb0"
    /\ nbResult.value.session_id = "s1"

\* C19: the requests are issued in the fixed order defaults, notebook
\* creation (if no id), link, context, session creation (if no id), execute;
\* a request follows a required step only if that step's request was answered
\* 2xx; a completed call issued link, context and execute exactly once each.
C19_FixedRequestOrder ==
    /\ Len(nbLog) <= Len(FixedOrder)
    /\ StepsIssued = SubSeq(FixedOrder, 1, Len(nbLog))
    /\ \A i \in DOMAIN nbLog :
          (i > 1 /\ nbLog[i-1].step \in RequiredSteps) => ~FailedRequest(nbLog[i-1])
    /\ nbPc = "done"
          => /\ StepsIssued = FixedOrder
             /\ Issued("link") = 1
             /\ Issued("context") = 1
             /\ Issued("execute") = 1

\* a completed call with both ids supplied: defaults, link, context, execute
C19_Witness ==
    /\ nbPc = "done"
    /\ nbArgs.notebook_id = "nb0"
    /\ nbArgs.session_id = "s0"
    /\ StepsIssued = <<"defaults", "link", "context", "execute">>
    /\ nbLog[2].notebook = "nb0"
    /\ nbLog[4].session = "s0"
    /\ nbLog[4].context = "ctx"

\* C20: when the request of a required step meets a connection error or a
\* non-2xx status, the call raises and returns no result, that request is
\* the last one it issues, and no request other than the six steps' (none
\* that deletes a notebook or a session) is ever issued.
C20_FailureAbortsWithoutLaterRequests ==
    /\ \A i \in DOMAIN nbLog :
          (nbLog[i].step \in RequiredSteps /\ FailedRequest(nbLog[i]))
          => /\ i = Len(nbLog)
             /\ nbPc = "raised"
             /\ nbResult.kind = "raise"
             /\ nbResult.exc \in {"ConnectionError", "HTTPError"}
    /\ \A i \in DOMAIN nbLog : nbLog[i].step \in RequiredSteps \cup {"defaults"}
    /\ nbResult.kind = "return" => \A i \in DOMAIN nbLog :
                                      nbLog[i].step \in RequiredSteps => ~FailedRequest(nbLog[i])

\* the notebook was created, then the link was refused with 404: the call
\* raised after three requests and the notebook stays
C20_Witness ==
    /\ nbPc = "raised"
    /\ nbArgs.notebook_id = ""
    /\ StepsIssued = <<"defaults", "create_notebook", "link">>
    /\ nbLog[2].status = 201
    /\ nbLog[3].status = 404
    /\ nbLog[3].notebook = "nb1"
    /\ nbResult = NbRaise("HTTPError")

\* the entry of the step's request in the log
Entry(step) == nbLog[CHOOSE i \in DOMAIN nbLog : nbLog[i].step = step]

\* the id an answer to a creation request carries
AnswerId(answer) == IF answer.body.kind = "dict" THEN answer.body.id ELSE ""

\* the notebook of the call: the supplied one, else the created one
ThreadedNotebook ==
    IF nbArgs.notebook_id # "" THEN nbArgs.notebook_id
    ELSE AnswerId(Entry("create_notebook").answer)

\* the session of the call: the supplied one, else the created one
ThreadedSession ==
    IF nbArgs.session_id # "" THEN nbArgs.session_id
    ELSE AnswerId(Entry("create_session").answer)

\* the chat default the first request fetched, "" if it fetched none
FetchedChatDefault ==
    LET answer == nbLog[1].answer
    IN  IF answer.status \in 200..299 /\ answer.body.kind = "dict"
        THEN answer.body.default_chat_model ELSE ""

C29_IdsAreThreaded ==
    /\ \A i \in DOMAIN nbLog :
          /\ nbLog[i].step \in {"link", "context", "create_session"}
                => nbLog[i].notebook = ThreadedNotebook
          /\ nbLog[i].step \in {"link", "context"} => nbLog[i].source = nbArgs.source_id
          /\ nbLog[i].step = "context"
                => nbLog[i].config = [sources |-> {<<nbArgs.source_id, "full content">>},
                                      notes |-> {}]
          /\ nbLog[i].step = "execute"
                => /\ nbLog[i].session = ThreadedSession
                   /\ nbLog[i].context = Entry("context").answer.body.context
    /\ nbPc = "done"
          => /\ nbResult.value.notebook_id = ThreadedNotebook
             /\ nbResult.value.session_id = ThreadedSession

\* a completed call that created both: every request carries the created ids
C29_Witness ==
    /\ nbPc = "done"
    /\ nbArgs.notebook_id = ""
    /\ nbArgs.session_id = ""
    /\ Entry("link").notebook = "nb1"
    /\ Entry("context").notebook = "nb1"
    /\ Entry("create_session").notebook = "nb1"
    /\ Entry("execute").session = "s1"
    /\ Entry("execute").context = "ctx"
    /\ nbResult.value.notebook_id = "nb1"
    /\ nbResult.value.session_id = "s1"

\* C30: the execute request carries the explicit model_override if one was
\* given, else the chat default fetched in step 1 and never the
\* transformation default; it carries no model only when no override was
\* given and the fetch failed or returned no chat default.
C30_ExecuteModel ==
    \A i \in DOMAIN nbLog :
       nbLog[i].step = "execute"
       => /\ nbLog[i].model = (IF nbArgs.model_override # "" THEN nbArgs.model_override
                               ELSE FetchedChatDefault)
          /\ nbLog[i].model = ""
                => /\ nbArgs.model_override = ""
                   /\ \/ FailedRequest(nbLog[1])
                      \/ nbLog[1].answer.body.kind # "dict"
                      \/ nbLog[1].answer.body.default_chat_model = ""

\* no override, defaults with both models: the chat default is sent
C30_Witness ==
    /\ nbArgs.model_override = ""
    /\ nbLog # <<>>
    /\ nbLog[1].answer = NbAnswer(200, WithDefaults("cm", "tm"))
    /\ nbLog[Len(nbLog)].step = "execute"
    /\ nbLog[Len(nbLog)].model = "cm"

\* C34: every link, context-build and session-creation request of
\* notebook_ask carries a workspace id, and every execute request a session
\* id; after a 2xx creation response without an id no later request is
\* issued with the id absent.
C34_NoRequestWithAbsentId ==
    \A i \in DOMAIN nbLog :
       /\ nbLog[i].step \in {"link", "context", "create_session"} => nbLog[i].notebook # ""
       /\ nbLog[i].step = "execute" => nbLog[i].session # ""

(***************************************************************************)
(* Properties of ask (SpecAsk) and of the defaults fetch (SpecQuery)       *)
(***************************************************************************)
\* the invocation's requests of the step
AskIssued(i, step) == {k \in DOMAIN akLog[i] : akLog[i][k].step = step}

\* the event a non-empty line is recorded as: the object itself, else its
\* text as a plain-text event
RecordedEvent(line) ==
    IF line.body.kind = "object" THEN line.body ELSE TextEvent(line.body.text)

NonEmpty(line) == line.body.kind # "blank"

\* the line is a structured event tagged "ai_message"
IsAiEvent(line) == line.body.kind = "object" /\ Tag(line.body) = "ai_message"

\* the events of the lines, one per non-empty line, in arrival order
RecordedEvents(lines) ==
    LET kept == SelectSeq(lines, NonEmpty)
    IN  [k \in DOMAIN kept |-> RecordedEvent(kept[k])]

\* the contents of the AI events among the lines, in arrival order
AiContents(lines) ==
    LET kept == SelectSeq(lines, IsAiEvent)
    IN  [k \in DOMAIN kept |-> Content(kept[k].body)]

\* C23: when the session-creation request of ask meets a connection error
\* or a non-2xx status, the call raises, returns no result, and issues no
\* request to the session's message endpoint.
C23_SessionFailureIsFatal ==
    \A i \in Invocations :
       \A k \in AskIssued(i, "session") :
          FailedRequest(akLog[i][k])
          => /\ k = Len(akLog[i])
             /\ akPc[i] = "raised"
             /\ akResult[i].kind = "raise"
             /\ akResult[i].exc \in {"ConnectionError", "HTTPError"}
             /\ AskIssued(i, "post") = {}

\* the session creation was refused with 404 and the call raised
C23_Witness ==
    /\ akPc[1] = "raised"
    /\ Len(akLog[1]) = 2
    /\ akLog[1][2].step = "session"
    /\ akLog[1][2].status = 404
    /\ akResult[1] = NbRaise("HTTPError")

\* C24: every non-empty line of the stream is recorded, as the structured
\* event it parses to or else as a plain-text event of its text, and no
\* line ends the reading of the stream.
C24_NoLineAbortsTheStream ==
    \A i \in Invocations :
       akLines[i] # <<>>
       => /\ akPc[i] \in {"lines", "done"}
          /\ akEvents[i] = RecordedEvents(akLines[i])

\* C25: the answer of the streaming ask is the concatenation, in arrival
\* order, of the contents of the events tagged "ai_message" and of nothing
\* else; events holds one entry per non-empty line in arrival order; total
\* is the number of AI events.
C25_AnswerIsAiContentsInOrder ==
    \A i \in Invocations :
       (akPc[i] = "done" /\ akArgs[i].source_ids # <<>>)
       => /\ akResult[i].value.answer = Join(AiContents(akLines[i]))
          /\ akResult[i].value.events = RecordedEvents(akLines[i])
          /\ akResult[i].value.total = Len(AiContents(akLines[i]))
          /\ Len(akResult[i].value.events) = Len(SelectSeq(akLines[i], NonEmpty))

\* AI content, a tool event, AI content: the answer is the two contents
C25_Witness ==
    /\ akPc[1] = "done"
    /\ akLines[1] = <<Line(FALSE, EventBody("ai_message", "", <<>>, <<"d", "e">>)),
                      Line(FALSE, EventBody("tool", "ai_message", <<"t">>, <<>>)),
                      Line(TRUE, EventBody("ai_message", "", <<"a">>, <<>>))>>
    /\ akResult[1].value.answer = <<"d", "e", "a">>
    /\ akResult[1].value.total = 2
    /\ Len(akResult[1].value.events) = 3

\* C21: a GET /models/defaults that meets a connection error or a non-2xx
\* status does not end notebook_ask or ask: the call goes on to its next
\* step with no defaults, and every later request carries the explicit
\* model_override or no model at all.
C21_DefaultsAreBestEffort ==
    /\ (nbLog # <<>> /\ FailedRequest(nbLog[1]))
          => /\ nbDefaults = NoDefaults
             /\ Len(nbLog) = 1
                   => /\ nbPc = (IF nbArgs.notebook_id = "" THEN "create_notebook" ELSE "link")
                      /\ nbResult = NoNbResult
             /\ \A k \in DOMAIN nbLog :
                   nbLog[k].step = "execute" => nbLog[k].model = nbArgs.model_override
    /\ \A i \in Invocations :
          (akLog[i] # <<>> /\ FailedRequest(akLog[i][1]))
          => /\ akDefaults[i] = NoDefaults
             /\ Len(akLog[i]) = 1
                   => /\ akPc[i] = (IF akArgs[i].source_ids # <<>> THEN "session" ELSE "simple")
                      /\ akResult[i] = NoNbResult
             /\ \A k \in DOMAIN akLog[i] :
                   /\ akLog[i][k].step \in {"session", "post", "simple"}
                         => akLog[i][k].model = akArgs[i].model_override
                   /\ akLog[i][k].step = "simple"
                         => /\ akLog[i][k].answer_model = akArgs[i].model_override
                            /\ akLog[i][k].final_model = akArgs[i].model_override

\* notebook_ask ran to completion although the defaults fetch was refused
C21_Witness ==
    /\ nbPc = "done"
    /\ nbLog[1].status = 404
    /\ nbArgs.model_override = ""
    /\ Entry("execute").model = ""

\* what a streaming call returns when it runs alone on these lines
AskAlone(lines) ==
    [search_results |-> <<>>, total |-> Len(AiContents(lines)),
     answer |-> Join(AiContents(lines)), events |-> RecordedEvents(lines)]

\* what notebook_ask returns when it runs alone on the answers it met
NotebookAlone ==
    LET msgs == Entry("execute").answer.body.messages
    IN  [notebook_id |-> ThreadedNotebook, session_id |-> ThreadedSession,
         messages |-> msgs,
         ai_answer |-> IF msgs # <<>> /\ msgs[Len(msgs)].type = "ai"
                       THEN msgs[Len(msgs)].content ELSE ""]

\* C27: with one notebook_ask and two streaming asks interleaved in every
\* order, the lists of each call hold the events of its own stream only,
\* and each result is the one the call produces alone on the same responses.
C27_CallsShareNoState ==
    /\ \A i \in Invocations :
          /\ akPc[i] \in {"lines", "done"}
                => /\ akEvents[i] = RecordedEvents(akLines[i])
                   /\ akChunks[i] = AiContents(akLines[i])
          /\ akPc[i] = "done" => akResult[i] = NbReturn(AskAlone(akLines[i]))
    /\ nbPc = "done" => nbResult = NbReturn(NotebookAlone)

\* the three calls have run to completion, the two asks on different streams
C27_Witness ==
    /\ nbPc = "done"
    /\ nbResult.value.notebook_id = "nb1"
    /\ akPc[1] = "done"
    /\ akPc[2] = "done"
    /\ akLines[1] = <<Line(TRUE, EventBody("ai_message", "", <<"a">>, <<>>)),
                      Line(TRUE, TextBody(<<"h", "i">>))>>
    /\ akLines[2] = <<Line(TRUE, TextBody(<<"h", "i">>)),
                      Line(TRUE, EventBody("ai_message", "", <<"a">>, <<>>)),
                      Line(TRUE, EventBody("ai_message", "", <<"a">>, <<>>))>>
    /\ akResult[1].value.answer = <<"a">>
    /\ akResult[2].value.answer = <<"a", "a">>
    /\ Len(akResult[1].value.events) = 2
    /\ Len(akResult[2].value.events) = 3

(***************************************************************************)
(* Property of normalize_filename (SpecNormalize)                          *)
(***************************************************************************)
\* C6: two file names that differ only by a path prefix, by letter case or by
\* a trailing " (n)" suffix before the extension normalise to the same string.
C6_SameNormalForm == nfPc = "done" => nfOut[1] = nfOut[2]

====
